---------------------------- MODULE Spec2Model ----------------------------
(***************************************************************************)
(* Model of the Amazon product scraper: the field extractor AmazonScraper  *)
(* and the HTTP routes of src/server.js, the page application              *)
(* AmazonScraperApp of src/script.js and the request handlers of the       *)
(* service worker src/sw.js.                                               *)
(*                                                                         *)
(* Strings are TLA+ strings; a character is a string of length 1.  A       *)
(* document is the sequence of its element nodes in document order; a      *)
(* node records the selectors of the extractor that match it, its text     *)
(* and its attributes.  An absent attribute and an empty one are both ""   *)
(* (the code only tests attributes for truthiness).                        *)
(***************************************************************************)
EXTENDS Integers, Sequences, FiniteSets, TLC

VARIABLES
    pc,     \* "ready" before the operation ran, "done" after it returned
    url,    \* the source URL handed to scrapeProduct
    doc,    \* the parsed document ($)
    out,    \* the value the operation returned
    \* the page application (AmazonScraperApp) and what it has in flight
    products,        \* this.products, the catalog
    currentProduct,  \* this.currentProduct, Null when there is none
    isEditing,       \* this.isEditing
    form,            \* the values of the editor's form fields
    storage,         \* localStorage['amazonScrapperProducts'], Null when unset
    toasts,          \* the toasts shown so far, oldest first
    imageHeap,       \* the images arrays of the extracted records, by record id
    clock,           \* the time, read as the number of the next record object
    controlled,      \* whether the service worker controls the page
    scrapes,         \* the POST /api/scrape requests issued by the page
    downloads,       \* the runs of downloadProductImages
    log,             \* the image download requests issued and their outcomes
    filters,         \* this.filters
    dropdowns,       \* the brand and category <select> elements of the page
    \* the service worker
    caches,          \* the entries of the worker's caches
    fetchEvents      \* the fetch events the worker has received

serverVars == <<pc, url, doc, out>>

filterVars == <<filters, dropdowns>>

pageVars == <<products, currentProduct, isEditing, form, storage, toasts, imageHeap,
              clock, controlled, scrapes, downloads, log, filters, dropdowns>>

workerVars == <<caches, fetchEvents>>

vars == <<pc, url, doc, out, products, currentProduct, isEditing, form, storage, toasts,
          imageHeap, clock, controlled, scrapes, downloads, log, filters, dropdowns,
          caches, fetchEvents>>

\* JavaScript's null
Null == <<>>

\* the editor's form after form.reset() with its chip containers emptied
EmptyForm ==
    [title |-> "", brand |-> "", model |-> "", asin |-> "", rating |-> "",
     ratingCount |-> "", originalPrice |-> "", offerPrice |-> "", offerPercentage |-> "",
     amountSaved |-> "", aboutItem |-> "", technicalData |-> "",
     colors |-> <<>>, categories |-> <<>>, tags |-> <<>>]

\* the page application right after its constructor ran with an empty store,
\* nothing in flight
AppConstructed ==
    /\ products = <<>>
    /\ currentProduct = Null
    /\ isEditing = FALSE
    /\ form = EmptyForm
    /\ storage = Null
    /\ toasts = <<>>
    /\ imageHeap = <<>>
    /\ clock = 1
    /\ scrapes = <<>>
    /\ downloads = <<>>
    /\ log = <<>>
    /\ filters = [search |-> "", brand |-> "", category |-> ""]
    /\ dropdowns = [brand |-> "", category |-> "", brands |-> {}, categories |-> {}]

\* the service worker with empty caches and no fetch event received
WorkerIdle ==
    /\ caches = {}
    /\ fetchEvents = <<>>

-----------------------------------------------------------------------------
(* Characters and strings *)

Char(s, i) == SubSeq(s, i, i)

Digits == {"0", "1", "2", "3", "4", "5", "6", "7", "8", "9"}

UpperLetters == "ABCDEFGHIJKLMNOPQRSTUVWXYZ"

LowerLetters == "abcdefghijklmnopqrstuvwxyz"

UpperSet == {Char(UpperLetters, i) : i \in 1..Len(UpperLetters)}

LowerSet == {Char(LowerLetters, i) : i \in 1..Len(LowerLetters)}

Whitespace == {" ", "\t", "\n"}

IsDigit(c) == c \in Digits

IsSpace(c) == c \in Whitespace

DigitValue(c) == CHOOSE v \in 0..9 : Char("0123456789", v + 1) = c

LowerChar(c) ==
    IF c \in UpperSet
    THEN Char(LowerLetters, CHOOSE i \in 1..Len(UpperLetters) : Char(UpperLetters, i) = c)
    ELSE c

RECURSIVE ToLower(_)
ToLower(s) == IF s = "" THEN "" ELSE LowerChar(Head(s)) \o ToLower(Tail(s))

\* s.includes(t)
Includes(s, t) ==
    \E i \in 1..(Len(s) - Len(t) + 1) : SubSeq(s, i, i + Len(t) - 1) = t

\* s starts with t at index i
StartsAt(s, i, t) == i + Len(t) - 1 <= Len(s) /\ SubSeq(s, i, i + Len(t) - 1) = t

\* the same, ignoring case (the /i flag)
StartsAtCI(s, i, t) ==
    i + Len(t) - 1 <= Len(s) /\ ToLower(SubSeq(s, i, i + Len(t) - 1)) = ToLower(t)

\* first index >= i of s whose character is not in class C (Len(s)+1 if none)
RECURSIVE SkipClass(_, _, _)
SkipClass(s, i, C) ==
    IF i <= Len(s) /\ Char(s, i) \in C THEN SkipClass(s, i + 1, C) ELSE i

\* least element of a non-empty set of integers
Least(S) == CHOOSE x \in S : \A y \in S : x <= y

\* String.prototype.trim
RECURSIVE TrimLeft(_)
TrimLeft(s) == IF s # "" /\ IsSpace(Head(s)) THEN TrimLeft(Tail(s)) ELSE s

RECURSIVE TrimRight(_)
TrimRight(s) ==
    IF s # "" /\ IsSpace(Char(s, Len(s)))
    THEN TrimRight(SubSeq(s, 1, Len(s) - 1))
    ELSE s

Trim(s) == TrimRight(TrimLeft(s))

-----------------------------------------------------------------------------
(* The document parser (cheerio), as the extractor uses it *)

\* an element matched by the selectors sels, with text t and no attribute
El(sels, t) == [sels |-> sels, text |-> t, attrs |-> <<>>]

\* the same, carrying the attributes a (name :> value @@ ...)
ElA(sels, t, a) == [sels |-> sels, text |-> t, attrs |-> a]

\* $el.attr(name); "" stands for undefined as well
Attr(n, name) == IF name \in DOMAIN n.attrs THEN n.attrs[name] ELSE ""

\* record.key, with "" standing for undefined when the key is absent
Get(r, k) == IF k \in DOMAIN r THEN r[k] ELSE ""

\* $(selector): the matched nodes in document order
Query(d, selector) == SelectSeq(d, LAMBDA n : selector \in n.sels)

\* $(selector).first().text().trim()
FirstText(d, selector) ==
    LET q == Query(d, selector) IN IF q = <<>> THEN "" ELSE Trim(q[1].text)

\* $(selector).attr(name): the attribute of the first matched node
FirstAttr(d, selector, name) ==
    LET q == Query(d, selector) IN IF q = <<>> THEN "" ELSE Attr(q[1], name)

\* the first index of a fallback chain among those that succeed (0 if none)
FirstOf(I) == IF I = {} THEN 0 ELSE Least(I)

-----------------------------------------------------------------------------
(* extractRating *)

ratingSelectors ==
    <<".a-icon-alt",
      "[data-cy=\"reviews-ratings-slot\"] .a-icon-alt",
      ".reviewCountTextLinkedHistogram .a-icon-alt",
      "#acrPopover .a-icon-alt">>

countSelectors ==
    <<"#acrCustomerReviewText",
      "[data-cy=\"reviews-ratings-slot\"] a[href*=\"reviews\"]",
      ".reviewCountTextLinkedHistogram a",
      "#averageCustomerReviews a">>

\* end (exclusive) of a match of \d+\.?\d* starting at i, which is a digit
NumberEnd(s, i) ==
    LET j == SkipClass(s, i, Digits)
        k == IF j <= Len(s) /\ Char(s, j) = "." THEN j + 1 ELSE j
    IN  SkipClass(s, k, Digits)

\* /(\d+\.?\d*)\s*out\s*of\s*5/i matches s from index i
RatingMatchAt(s, i) ==
    /\ i <= Len(s)
    /\ IsDigit(Char(s, i))
    /\ LET a == SkipClass(s, NumberEnd(s, i), Whitespace)
           b == SkipClass(s, a + 3, Whitespace)
           c == SkipClass(s, b + 2, Whitespace)
       IN  /\ StartsAtCI(s, a, "out")
           /\ StartsAtCI(s, b, "of")
           /\ StartsAt(s, c, "5")

\* ratingText.match(...): <<match[1]>> for the leftmost match, <<>> for null
RatingMatch(s) ==
    LET I == {i \in 1..Len(s) : RatingMatchAt(s, i)}
    IN  IF I = {} THEN <<>>
        ELSE <<SubSeq(s, Least(I), NumberEnd(s, Least(I)) - 1)>>

CountClass == Digits \cup {","}

\* countText.match(/([0-9,]+)/): <<match[1]>> for the leftmost match, <<>> for null
CountMatch(s) ==
    LET I == {i \in 1..Len(s) : Char(s, i) \in CountClass}
    IN  IF I = {} THEN <<>>
        ELSE <<SubSeq(s, Least(I), SkipClass(s, Least(I), CountClass) - 1)>>

\* The record extractRating returns; a key the code never sets is absent.
extractRating(d) ==
    LET ri == FirstOf({i \in DOMAIN ratingSelectors :
                           RatingMatch(FirstText(d, ratingSelectors[i])) # <<>>})
        ci == FirstOf({i \in DOMAIN countSelectors :
                           CountMatch(FirstText(d, countSelectors[i])) # <<>>})
        r  == IF ri = 0 THEN <<>>
              ELSE [rating |-> RatingMatch(FirstText(d, ratingSelectors[ri]))[1]]
        c  == IF ci = 0 THEN <<>>
              ELSE [ratingCount |-> CountMatch(FirstText(d, countSelectors[ci]))[1]]
    IN  r @@ c


-----------------------------------------------------------------------------
(* extractASIN *)

AsinClass == UpperSet \cup Digits

AsinLen == 10

asinSelectors == <<"[data-asin]", "#ASIN", "input[name=\"ASIN\"]">>

AllIn(s, C) == \A i \in 1..Len(s) : Char(s, i) \in C

\* /\/([A-Z0-9]{10})\// matches u from index i
AsinMatchAt(u, i) ==
    /\ i + AsinLen + 1 <= Len(u)
    /\ Char(u, i) = "/"
    /\ AllIn(SubSeq(u, i + 1, i + AsinLen), AsinClass)
    /\ Char(u, i + AsinLen + 1) = "/"

\* url.match(...): <<match[1]>> for the leftmost match, <<>> for null
AsinMatch(u) ==
    LET I == {i \in 1..Len(u) : AsinMatchAt(u, i)}
    IN  IF I = {} THEN <<>> ELSE <<SubSeq(u, Least(I) + 1, Least(I) + AsinLen)>>

\* /^[A-Z0-9]{10}$/.test(asin)
IsAsin(a) == Len(a) = AsinLen /\ AllIn(a, AsinClass)

\* $(selector).attr('value') || $(selector).attr('data-asin')
PageAsin(d, selector) ==
    IF FirstAttr(d, selector, "value") # ""
    THEN FirstAttr(d, selector, "value")
    ELSE FirstAttr(d, selector, "data-asin")

extractASINFromPage(d) ==
    LET k == FirstOf({i \in DOMAIN asinSelectors :
                          /\ PageAsin(d, asinSelectors[i]) # ""
                          /\ IsAsin(PageAsin(d, asinSelectors[i]))})
    IN  IF k = 0 THEN "" ELSE PageAsin(d, asinSelectors[k])

\* a plausible slip: the page is consulted before the URL
extractASIN_PageFirst(d, u) ==
    IF extractASINFromPage(d) # "" THEN extractASINFromPage(d)
    ELSE IF AsinMatch(u) # <<>> THEN AsinMatch(u)[1] ELSE ""

extractASIN(d, u) ==
    IF AsinMatch(u) # <<>> THEN AsinMatch(u)[1] ELSE extractASINFromPage(d)

-----------------------------------------------------------------------------
(* Numbers.  A price is held in cents; the model's price texts carry at   *)
(* most two decimals, and arithmetic on them is exact.                     *)

NaN == -1

\* s.replace(/[^0-9.]/g, '')
RECURSIVE StripNonNumeric(_)
StripNonNumeric(s) ==
    IF s = "" THEN ""
    ELSE (IF Head(s) \in Digits \cup {"."} THEN Head(s) ELSE "")
         \o StripNonNumeric(Tail(s))

\* the value of a string of digits
RECURSIVE DigitsValue(_)
DigitsValue(s) ==
    IF s = "" THEN 0
    ELSE 10 * DigitsValue(SubSeq(s, 1, Len(s) - 1)) + DigitValue(Char(s, Len(s)))

\* parseFloat of a string of digits and dots, in cents: the integer part,
\* then the fraction after the first dot; NaN when there is no digit
ParseFloatCents(t) ==
    LET j    == SkipClass(t, 1, Digits)
        int  == SubSeq(t, 1, j - 1)
        k    == IF j <= Len(t) /\ Char(t, j) = "." THEN SkipClass(t, j + 1, Digits) ELSE j
        frac == SubSeq(t, j + 1, k - 1)
        f2   == SubSeq(frac \o "00", 1, 2)
    IN  IF int = "" /\ frac = "" THEN NaN
        ELSE 100 * DigitsValue(int) + DigitsValue(f2)

\* `${n}` for an integer n >= 0
RECURSIVE IntToString(_)
IntToString(n) ==
    IF n < 10 THEN Char("0123456789", n + 1)
    ELSE IntToString(n \div 10) \o Char("0123456789", (n % 10) + 1)

\* saved.toFixed(2), saved given in cents
ToFixed2(cents) ==
    IntToString(cents \div 100) \o "."
        \o IntToString((cents % 100) \div 10) \o IntToString(cents % 10)

\* Math.round(a / b * 100) for a >= 0, b > 0: halves round up
RoundPercent(a, b) == (200 * a + b) \div (2 * b)

\* parseInt(s): optional leading whitespace and sign, then digits; NaN otherwise.
\* The result is <<value>>, or <<>> for NaN.
ParseInt(s) ==
    LET t    == TrimLeft(s)
        neg  == t # "" /\ Head(t) = "-"
        u    == IF t # "" /\ Head(t) \in {"-", "+"} THEN Tail(t) ELSE t
        j    == SkipClass(u, 1, Digits)
    IN  IF j = 1 THEN <<>>
        ELSE <<(IF neg THEN -1 ELSE 1) * DigitsValue(SubSeq(u, 1, j - 1))>>

-----------------------------------------------------------------------------
(* extractPricing *)

priceSelectorsCurrent ==
    <<".a-price.a-text-normal .a-offscreen",
      ".a-price-current .a-offscreen",
      ".a-price .a-offscreen",
      "#apex_desktop .a-price .a-offscreen",
      ".a-price-whole",
      "#price_inside_buybox",
      ".a-price-symbol + .a-price-whole">>

priceSelectorsOriginal ==
    <<".a-price.a-text-price .a-offscreen",
      ".a-text-strike .a-offscreen",
      ".a-price-was .a-offscreen",
      ".a-text-price",
      "#listPrice .a-offscreen",
      "[data-cy=\"original-price\"]">>

priceSelectorsDiscount ==
    <<".a-badge-text",
      ".savingsPercentage",
      ".a-size-large.a-color-price",
      "[data-cy=\"discount-percentage\"]",
      ".a-text-bold.a-color-price">>

jsonLdSelector == "script[type=\"application/ld+json\"]"

PriceClass == Digits \cup {","}

\* price.match(/\$[\d,]+\.?\d*/): the currency-shape check (unanchored)
PriceShape(s) ==
    \E i \in 1..(Len(s) - 1) : Char(s, i) = "$" /\ Char(s, i + 1) \in PriceClass

\* text.match(/^\$[\d,]+\.?\d*$/) && text.length < 15
BarePrice(s) ==
    /\ Len(s) < 15
    /\ Len(s) >= 2
    /\ Char(s, 1) = "$"
    /\ Char(s, 2) \in PriceClass
    /\ LET j == SkipClass(s, 2, PriceClass)
           k == IF j <= Len(s) /\ Char(s, j) = "." THEN j + 1 ELSE j
       IN  SkipClass(s, k, Digits) = Len(s) + 1

\* discount.match(/\d+%/)
DiscountShape(s) ==
    \E i \in 1..(Len(s) - 1) : IsDigit(Char(s, i)) /\ Char(s, i + 1) = "%"

\* Method 1, current price: first selector whose text has the currency shape
CurrentPriceBySelector(d) ==
    LET k == FirstOf({i \in DOMAIN priceSelectorsCurrent :
                          PriceShape(FirstText(d, priceSelectorsCurrent[i]))})
    IN  IF k = 0 THEN "" ELSE FirstText(d, priceSelectorsCurrent[k])

\* Method 1, original price: first selector whose text has the currency
\* shape and differs from the current price found so far
OriginalPriceBySelector(d, currentPrice) ==
    LET k == FirstOf({i \in DOMAIN priceSelectorsOriginal :
                          /\ PriceShape(FirstText(d, priceSelectorsOriginal[i]))
                          /\ FirstText(d, priceSelectorsOriginal[i]) # currentPrice})
    IN  IF k = 0 THEN "" ELSE FirstText(d, priceSelectorsOriginal[k])

\* a plausible slip: the span filter keeps any text that holds a price
CurrentPriceBySpan_Unanchored(d) ==
    LET spans == SelectSeq(Query(d, "span"), LAMBDA n : PriceShape(Trim(n.text)))
    IN  IF spans = <<>> THEN "" ELSE Trim(spans[1].text)

\* Method 2: the first span whose trimmed text is a bare price
CurrentPriceBySpan(d) ==
    LET spans == SelectSeq(Query(d, "span"), LAMBDA n : BarePrice(Trim(n.text)))
    IN  IF spans = <<>> THEN "" ELSE Trim(spans[1].text)

\* Method 3: offers.price of the JSON-LD blocks; each block that carries one
\* overwrites the price, so the last one stands ("" if none)
JsonLdPrice(d) ==
    LET blocks == SelectSeq(Query(d, jsonLdSelector),
                            LAMBDA n : Attr(n, "offers.price") # "")
    IN  IF blocks = <<>> THEN "" ELSE Attr(blocks[Len(blocks)], "offers.price")

DiscountBySelector(d) ==
    LET k == FirstOf({i \in DOMAIN priceSelectorsDiscount :
                          DiscountShape(FirstText(d, priceSelectorsDiscount[i]))})
    IN  IF k = 0 THEN "" ELSE FirstText(d, priceSelectorsDiscount[k])

\* a record with the one key k when v is truthy, the empty record otherwise
Field(k, v) == IF v = "" THEN <<>> ELSE (k :> v)

\* "Calculate savings if we have both prices": the keys it adds to pricing
Savings(offerPrice, originalPrice, offerPercentage) ==
    IF offerPrice # "" /\ originalPrice # "" /\ originalPrice # offerPrice
    THEN LET originalNum == ParseFloatCents(StripNonNumeric(originalPrice))
             offerNum    == ParseFloatCents(StripNonNumeric(offerPrice))
             saved       == originalNum - offerNum
         IN  IF originalNum # NaN /\ offerNum # NaN /\ originalNum > offerNum
             THEN ("amountSaved" :> ToFixed2(saved))
                  @@ (IF offerPercentage = ""
                      THEN ("offerPercentage" :>
                               IntToString(RoundPercent(saved, originalNum)) \o "% off")
                      ELSE <<>>)
             ELSE <<>>
    ELSE <<>>

\* a plausible slip: the JSON-LD price overwrites a price already found
extractPricing_JsonLdAlways(d) ==
    LET cur1 == CurrentPriceBySelector(d)
        orig == OriginalPriceBySelector(d, cur1)
        cur  == IF cur1 # "" THEN cur1 ELSE CurrentPriceBySpan(d)
        disc == DiscountBySelector(d)
        set  == Field("offerPrice", cur)
                @@ Field("originalPrice", IF orig # "" THEN orig ELSE cur)
                @@ Field("offerPercentage", disc)
        sav  == Savings(cur, IF orig # "" THEN orig ELSE cur, disc)
    IN  Field("offerPrice", JsonLdPrice(d)) @@ sav @@ set

\* The record extractPricing returns; a key the code never sets is absent.
extractPricing(d) ==
    LET cur1 == CurrentPriceBySelector(d)
        orig == OriginalPriceBySelector(d, cur1)
        cur  == IF cur1 # "" THEN cur1 ELSE CurrentPriceBySpan(d)
        disc == DiscountBySelector(d)
        set  == Field("offerPrice", cur)
                @@ Field("originalPrice", IF orig # "" THEN orig ELSE cur)
                @@ Field("offerPercentage", disc)
        sav  == Savings(cur, IF orig # "" THEN orig ELSE cur, disc)
        ld   == IF cur = "" THEN Field("offerPrice", JsonLdPrice(d)) ELSE <<>>
    IN  ld @@ sav @@ set

-----------------------------------------------------------------------------
(* extractColors, extractImages, extractCategories *)

\* $(a), then $(b), ...: the nodes visited by selectors.forEach($(selector).each)
RECURSIVE QueryAll(_, _)
QueryAll(d, selectors) ==
    IF selectors = <<>> THEN <<>>
    ELSE Query(d, Head(selectors)) \o QueryAll(d, Tail(selectors))

\* a || b || ... over strings: the first truthy one, "" if none
RECURSIVE FirstTruthy(_)
FirstTruthy(vals) ==
    IF vals = <<>> THEN ""
    ELSE IF Head(vals) # "" THEN Head(vals) ELSE FirstTruthy(Tail(vals))

\* array.slice(0, n)
Slice(a, n) == SubSeq(a, 1, IF Len(a) < n THEN Len(a) ELSE n)

\* array.includes(x)
InSeq(a, x) == \E i \in DOMAIN a : a[i] = x

MaxColors == 10

MaxImages == 6

MaxCategories == 5

colorSelectors ==
    <<"#variation_color_name li",
      ".a-button-thumbnail img",
      "[data-cy=\"color-name\"]",
      "#color_name_list li",
      ".swatches li">>

ColorName(n) ==
    FirstTruthy(<<Attr(n, "title"), Attr(n, "alt"), Trim(n.text),
                  Attr(n, "img.alt"), Attr(n, "img.title")>>)

\* the colors array after visiting the nodes in order
RECURSIVE CollectColors(_, _)
CollectColors(nodes, colors) ==
    IF nodes = <<>> THEN colors
    ELSE LET colorName == ColorName(Head(nodes))
         IN  CollectColors(Tail(nodes),
                 IF colorName # "" /\ ~InSeq(colors, colorName) /\ Len(colorName) > 1
                 THEN Append(colors, colorName)
                 ELSE colors)

\* a plausible slip: the duplicate check is left out
extractColors_NoDedup(d) ==
    Slice(SelectSeq([i \in DOMAIN QueryAll(d, colorSelectors) |->
                        ColorName(QueryAll(d, colorSelectors)[i])],
                    LAMBDA c : Len(c) > 1),
          MaxColors)

extractColors(d) == Slice(CollectColors(QueryAll(d, colorSelectors), <<>>), MaxColors)

imageSelectors ==
    <<"#altImages img",
      "#imageBlock img",
      ".a-dynamic-image",
      "#main-image",
      "[data-cy=\"product-image\"]">>

HiRes == "._AC_SX500_"

\* /\._[A-Z]{2}[0-9]+_/ matches s from index i: the index after the match, 0 if none
SizeTokenEnd(s, i) ==
    IF /\ StartsAt(s, i, "._")
       /\ i + 4 <= Len(s)
       /\ Char(s, i + 2) \in UpperSet
       /\ Char(s, i + 3) \in UpperSet
       /\ IsDigit(Char(s, i + 4))
       /\ StartsAt(s, SkipClass(s, i + 4, Digits), "_")
    THEN SkipClass(s, i + 4, Digits) + 1
    ELSE 0

\* src.replace(/\._[A-Z]{2}[0-9]+_/, '._AC_SX500_'): the leftmost match only
ReplaceSizeToken(s) ==
    LET I == {i \in 1..Len(s) : SizeTokenEnd(s, i) # 0}
    IN  IF I = {} THEN s
        ELSE SubSeq(s, 1, Least(I) - 1) \o HiRes
             \o SubSeq(s, SizeTokenEnd(s, Least(I)), Len(s))

\* s.replace(/\._.*?\./, '._AC_SX500_.'): from the leftmost "._" that has a
\* later dot, to the nearest such dot
ReplaceToNextDot(s) ==
    LET Dot(i) == {j \in (i + 2)..Len(s) : Char(s, j) = "."}
        I == {i \in 1..Len(s) : StartsAt(s, i, "._") /\ Dot(i) # {}}
    IN  IF I = {} THEN s
        ELSE SubSeq(s, 1, Least(I) - 1) \o HiRes \o "."
             \o SubSeq(s, Least(Dot(Least(I))) + 1, Len(s))

\* "Clean up the URL and get high-res version"
HighResUrl(src) == ReplaceToNextDot(ReplaceSizeToken(src))

ImageSrc(n) ==
    FirstTruthy(<<Attr(n, "data-old-hires"), Attr(n, "data-large-image-url"),
                  Attr(n, "data-src"), Attr(n, "src")>>)

\* the images array after visiting the nodes in order; the set seenUrls is
\* the set of urls of the images, since both grow together
RECURSIVE CollectImages(_, _)
CollectImages(nodes, images) ==
    IF nodes = <<>> THEN images
    ELSE LET img == Head(nodes)
             src == HighResUrl(ImageSrc(img))
             seenUrls == {images[i].url : i \in DOMAIN images}
         IN  CollectImages(Tail(nodes),
                 IF /\ ImageSrc(img) # ""
                    /\ src \notin seenUrls
                    /\ Includes(src, "amazon")
                    /\ ~Includes(src, "sprite")
                 THEN Append(images,
                          [url |-> src,
                           alt |-> IF Attr(img, "alt") # "" THEN Attr(img, "alt")
                                   ELSE "Product image " \o IntToString(Len(images) + 1),
                           downloaded |-> FALSE])
                 ELSE images)

\* a plausible slip: URLs are compared before the resolution rewrite
RECURSIVE CollectImages_SeenRaw(_, _, _)
CollectImages_SeenRaw(nodes, images, seenRaw) ==
    IF nodes = <<>> THEN images
    ELSE LET img == Head(nodes)
             src == HighResUrl(ImageSrc(img))
             ok  == /\ ImageSrc(img) # ""
                    /\ ImageSrc(img) \notin seenRaw
                    /\ Includes(src, "amazon")
                    /\ ~Includes(src, "sprite")
         IN  CollectImages_SeenRaw(Tail(nodes),
                 IF ok
                 THEN Append(images,
                          [url |-> src,
                           alt |-> IF Attr(img, "alt") # "" THEN Attr(img, "alt")
                                   ELSE "Product image " \o IntToString(Len(images) + 1),
                           downloaded |-> FALSE])
                 ELSE images,
                 IF ok THEN seenRaw \cup {ImageSrc(img)} ELSE seenRaw)

extractImages_SeenRaw(d) ==
    Slice(CollectImages_SeenRaw(QueryAll(d, imageSelectors), <<>>, {}), MaxImages)

extractImages(d) == Slice(CollectImages(QueryAll(d, imageSelectors), <<>>), MaxImages)

breadcrumbSelectors ==
    <<"#wayfinding-breadcrumbs_container a",
      ".a-breadcrumb a",
      "#nav-subnav a",
      "[data-cy=\"breadcrumb\"] a">>

\* the categories array after visiting the nodes in order
RECURSIVE CollectCategories(_, _)
CollectCategories(nodes, categories) ==
    IF nodes = <<>> THEN categories
    ELSE LET category == Trim(Head(nodes).text)
         IN  CollectCategories(Tail(nodes),
                 IF /\ category # ""
                    /\ Len(category) > 2
                    /\ ~Includes(ToLower(category), "amazon")
                    /\ ~InSeq(categories, category)
                 THEN Append(categories, category)
                 ELSE categories)

\* a plausible slip: the cap is applied with the wrong limit
extractCategories_NoCap(d) == CollectCategories(QueryAll(d, breadcrumbSelectors), <<>>)

\* breadcrumbSelectors.forEach runs every selector: the `return false` of its
\* callback ends that callback only, so the selectors' matches accumulate
extractCategories(d) ==
    Slice(CollectCategories(QueryAll(d, breadcrumbSelectors), <<>>), MaxCategories)

-----------------------------------------------------------------------------
(* extractTitle, extractBrand, extractModel *)

titleSelectors ==
    <<"#productTitle",
      ".product-title",
      "[data-cy=\"product-title\"]",
      "h1.a-size-large.a-spacing-none",
      "h1 span">>

extractTitle(d) ==
    LET k == FirstOf({i \in DOMAIN titleSelectors : FirstText(d, titleSelectors[i]) # ""})
    IN  IF k = 0 THEN "" ELSE FirstText(d, titleSelectors[k])

brandSelectors ==
    <<"#bylineInfo",
      ".a-link-normal[href*=\"/stores/\"]",
      "a[data-brand]",
      ".po-brand .po-break-word",
      "#brandNameHeading",
      "[data-cy=\"brand-name\"]">>

\* brand.replace(/^Brand:\s*/i, '')
StripBrandPrefix(b) ==
    IF StartsAtCI(b, 1, "Brand:")
    THEN SubSeq(b, SkipClass(b, 7, Whitespace), Len(b))
    ELSE b

\* brand.replace(/^by\s+/i, '')
StripByPrefix(b) ==
    IF StartsAtCI(b, 1, "by") /\ SkipClass(b, 3, Whitespace) > 3
    THEN SubSeq(b, SkipClass(b, 3, Whitespace), Len(b))
    ELSE b

BrandNameClass == UpperSet \cup LowerSet \cup Whitespace \cup {"&", "-"}

BrandEndClass == Whitespace \cup {"-"}

\* title.match(/^([A-Z][a-zA-Z\s&-]+?)[\s-]+/): <<match[1]>>, <<>> for null.
\* The lazy group takes the fewest characters (at least one) after which a
\* blank or a hyphen follows.
BrandFromTitle(title) ==
    LET run == SkipClass(title, 2, BrandNameClass) - 1
        K   == {k \in 2..run : k + 1 <= Len(title) /\ Char(title, k + 1) \in BrandEndClass}
    IN  IF title # "" /\ Char(title, 1) \in UpperSet /\ K # {}
        THEN <<SubSeq(title, 1, Least(K))>>
        ELSE <<>>

BrandAccepted(brand) ==
    /\ brand # ""
    /\ ~Includes(ToLower(brand), "visit")
    /\ ~Includes(ToLower(brand), "store")

extractBrand(d) ==
    LET k == FirstOf({i \in DOMAIN brandSelectors :
                          BrandAccepted(FirstText(d, brandSelectors[i]))})
        title == extractTitle(d)
    IN  IF k # 0 THEN StripByPrefix(StripBrandPrefix(FirstText(d, brandSelectors[k])))
        ELSE IF title # "" /\ BrandFromTitle(title) # <<>>
        THEN Trim(BrandFromTitle(title)[1])
        ELSE ""

modelSelectors ==
    <<".po-model_name .po-break-word",
      "[data-cy=\"model-name\"]",
      "#model_name",
      ".model-name">>

techSelectors ==
    <<"#tech tbody tr",
      "#productDetails_detailBullets_sections1 tbody tr",
      "#productDetails_techSpec_section_1 tbody tr",
      ".a-keyvalue tbody tr">>

\* $('#tech tbody tr, #productDetails_detailBullets_sections1 tbody tr')
ModelRows(d) ==
    SelectSeq(d, LAMBDA n : techSelectors[1] \in n.sels \/ techSelectors[2] \in n.sels)

\* A table row carries its cells as attributes: "label" is the text of
\* 'td:first-child, th:first-child', "cell.last" of 'td:last-child' and
\* "cell" of 'td:last-child, td:nth-child(2)'.
ModelRowAccepted(row) ==
    /\ Includes(ToLower(Trim(Attr(row, "label"))), "model")
    /\ ~Includes(ToLower(Trim(Attr(row, "label"))), "number")
    /\ Trim(Attr(row, "cell.last")) \notin {"", "N/A", "-"}

extractModel(d) ==
    LET k    == FirstOf({i \in DOMAIN modelSelectors : FirstText(d, modelSelectors[i]) # ""})
        rows == SelectSeq(ModelRows(d), ModelRowAccepted)
    IN  IF k # 0 THEN FirstText(d, modelSelectors[k])
        ELSE IF rows # <<>> THEN Trim(Attr(rows[1], "cell.last"))
        ELSE ""

-----------------------------------------------------------------------------
(* extractAboutItem, extractTechnicalData *)

aboutSelectors ==
    <<"#feature-bullets ul li span",
      "[data-cy=\"item-bullets\"] li",
      "#productDescription p",
      ".a-unordered-list.a-vertical.a-spacing-none li span">>

\* stands for the bullet marker string of the source
Bullet == "<bullet>"

\* stands for the empty-glyph string the source excludes from the spec values
EmptyGlyph == "<lrm>"

RECURSIVE Join(_, _)
Join(items, sep) ==
    IF items = <<>> THEN ""
    ELSE IF Len(items) = 1 THEN items[1]
    ELSE items[1] \o sep \o Join(Tail(items), sep)

AboutItems(d, selector) ==
    LET texts == [i \in DOMAIN Query(d, selector) |-> Trim(Query(d, selector)[i].text)]
    IN  SelectSeq(texts, LAMBDA t : t # "" /\ Len(t) > 10
                                    /\ ~Includes(ToLower(t), "see more"))

\* a plausible slip: the marker is prefixed even when nothing was collected
extractAboutItem_AlwaysBullet(d) ==
    LET k == FirstOf({i \in DOMAIN aboutSelectors : AboutItems(d, aboutSelectors[i]) # <<>>})
    IN  Bullet \o " " \o (IF k = 0 THEN ""
                          ELSE Join(AboutItems(d, aboutSelectors[k]), "\n" \o Bullet \o " "))

extractAboutItem(d) ==
    LET k == FirstOf({i \in DOMAIN aboutSelectors : AboutItems(d, aboutSelectors[i]) # <<>>})
    IN  IF k = 0 THEN ""
        ELSE Bullet \o " " \o Join(AboutItems(d, aboutSelectors[k]), "\n" \o Bullet \o " ")

TechRowAccepted(row) ==
    /\ Trim(Attr(row, "label")) # ""
    /\ Trim(Attr(row, "cell")) \notin {"", "N/A", "-", EmptyGlyph}

TechLines(rows) ==
    [i \in DOMAIN rows |-> Trim(Attr(rows[i], "label")) \o ": " \o Trim(Attr(rows[i], "cell"))]

\* techSelectors.forEach runs every selector: the `return false` of its
\* callback ends that callback only, so the selectors' rows accumulate
extractTechnicalData(d) ==
    Join(TechLines(SelectSeq(QueryAll(d, techSelectors), TechRowAccepted)), "\n")

-----------------------------------------------------------------------------
(* generateTags *)

MaxTags == 8

HighlyRatedMin == 400

GreatDealMin == 50

GoodDealMin == 20

\* Object.entries(keywordTags): <<keyword, tag>> in insertion order
keywordTags ==
    << <<"wireless", "Wireless">>,
       <<"bluetooth", "Bluetooth">>,
       <<"smart", "Smart Device">>,
       <<"premium", "Premium">>,
       <<"professional", "Professional">>,
       <<"portable", "Portable">>,
       <<"waterproof", "Waterproof">>,
       <<"rechargeable", "Rechargeable">> >>

\* productData.rating && parseFloat(productData.rating) >= 4.0
IsHighlyRated(rating) ==
    rating # "" /\ ParseFloatCents(rating) # NaN /\ ParseFloatCents(rating) >= HighlyRatedMin

\* the deal tag of an offerPercentage: parseInt reads a leading integer only
DealTags(offerPercentage) ==
    LET discount == ParseInt(offerPercentage)
    IN  IF offerPercentage = "" \/ discount = <<>> THEN <<>>
        ELSE IF discount[1] >= GreatDealMin THEN <<"Great Deal">>
        ELSE IF discount[1] >= GoodDealMin THEN <<"Good Deal">>
        ELSE <<>>

\* the tags array after the keyword entries from index i on
RECURSIVE AddKeywordTags(_, _, _)
AddKeywordTags(title, tags, i) ==
    IF i > Len(keywordTags) THEN tags
    ELSE AddKeywordTags(title,
             IF Includes(title, keywordTags[i][1]) /\ ~InSeq(tags, keywordTags[i][2])
             THEN Append(tags, keywordTags[i][2])
             ELSE tags,
             i + 1)

\* a plausible slip: the keywords are tested against the title as written
generateTags_CaseSensitive(productData) ==
    Slice(AddKeywordTags(Get(productData, "title"),
              (IF Get(productData, "brand") # "" THEN <<productData.brand>> ELSE <<>>)
              \o (IF IsHighlyRated(Get(productData, "rating")) THEN <<"Highly Rated">> ELSE <<>>)
              \o DealTags(Get(productData, "offerPercentage")),
              1),
          MaxTags)

generateTags(productData) ==
    Slice(AddKeywordTags(ToLower(Get(productData, "title")),
              (IF Get(productData, "brand") # "" THEN <<productData.brand>> ELSE <<>>)
              \o (IF IsHighlyRated(Get(productData, "rating")) THEN <<"Highly Rated">> ELSE <<>>)
              \o DealTags(Get(productData, "offerPercentage")),
              1),
          MaxTags)

-----------------------------------------------------------------------------
(* scrapeProduct *)

\* productData before the tags are generated; Object.assign lets the pricing
\* and rating keys overwrite nothing, since their names are their own
ScrapedFields(d, u) ==
    [title |-> extractTitle(d),
     brand |-> extractBrand(d),
     model |-> extractModel(d),
     asin  |-> extractASIN(d, u),
     colors |-> extractColors(d),
     aboutItem |-> extractAboutItem(d),
     technicalData |-> extractTechnicalData(d),
     images |-> extractImages(d),
     categories |-> extractCategories(d)]
    @@ extractPricing(d) @@ extractRating(d)

scrapeProduct(d, u) ==
    ScrapedFields(d, u) @@ [tags |-> generateTags(ScrapedFields(d, u))]

-----------------------------------------------------------------------------
(* Bounded inputs *)

\* all sequences over S of length at most n
SeqsUpTo(S, n) == UNION {[1..k -> S] : k \in 0..n}

Range(f) == {f[i] : i \in DOMAIN f}

MaxRatingNodes == 2

RatingTexts ==
    {"4.5 out of 5 stars", " 4 out of 5 ", "3.9 OUT OF 5 stars",
     "Rated 14.5out of5", "4.5 of 5", "Previous page"}

CountTexts ==
    {"1,234 ratings", "87 ratings", "(2,045)", "1,234,567 global ratings",
     "See all reviews"}

RatingNodePool ==
    {El({".a-icon-alt"}, t) : t \in RatingTexts}
    \cup {El({".a-icon-alt", "#acrPopover .a-icon-alt"}, t) : t \in RatingTexts}
    \cup {El({"#acrCustomerReviewText"}, t) : t \in CountTexts}
    \cup {El({"#averageCustomerReviews a"}, t) : t \in CountTexts}

InitRating ==
    /\ pc = "ready"
    /\ url = ""
    /\ doc \in SeqsUpTo(RatingNodePool, MaxRatingNodes)
    /\ out = <<>>
    /\ AppConstructed /\ controlled = FALSE
    /\ WorkerIdle

ExtractRating ==
    /\ pc = "ready"
    /\ pc' = "done"
    /\ out' = extractRating(doc)
    /\ UNCHANGED <<url, doc>>
    /\ UNCHANGED <<pageVars, workerVars>>

NextRating == ExtractRating

SpecRating == InitRating /\ [][NextRating]_vars

-----------------------------------------------------------------------------
(* Claims about extractRating *)

RatingNumbers == {"4.5", "4", "3.9"}

CommaGroups == {"1,234", "1,234,567"}

RECURSIVE StripCommas(_)
StripCommas(s) ==
    IF s = "" THEN ""
    ELSE (IF Head(s) = "," THEN "" ELSE Head(s)) \o StripCommas(Tail(s))

\* C1: when the rating text reads '<number> out of 5 ...' and the count text
\* holds a comma-grouped number, extractRating returns the number as rating
\* and the count's digits with the commas removed as ratingCount
\* ('4.5 out of 5 stars', '1,234 ratings' give '4.5' and '1234').
C1_RatingAndCommaStrippedCount ==
    pc = "done" =>
        \A n \in RatingNumbers, g \in CommaGroups :
            (/\ StartsAt(FirstText(doc, ratingSelectors[1]), 1, n \o " out of 5")
             /\ StartsAt(FirstText(doc, countSelectors[1]), 1, g \o " "))
            => /\ DOMAIN out = {"rating", "ratingCount"}
               /\ out.rating = n
               /\ out.ratingCount = StripCommas(g)

-----------------------------------------------------------------------------
(* extractASIN on bounded URLs and pages *)

MaxSegments == 2

UrlBase == "https://www.amazon.com"

UrlSegments == {"dp", "Some-Title", "B08N5WRWNW", "B00ABCDEF1", "b08n5wrwnw", "B08N5WRWNWX"}

UrlTails == {"", "/", "?th=1", "/ref=sr_1_1"}

RECURSIVE JoinPath(_)
JoinPath(segs) == IF segs = <<>> THEN "" ELSE "/" \o Head(segs) \o JoinPath(Tail(segs))

Urls ==
    {UrlBase \o JoinPath(p) \o t :
        p \in SeqsUpTo(UrlSegments, MaxSegments) \ {<<>>}, t \in UrlTails}

AsinDocs ==
    { <<>>,
      <<ElA({"[data-asin]"}, "", "data-asin" :> "B00PAGE123")>>,
      <<ElA({"[data-asin]"}, "", "data-asin" :> ""),
        ElA({"#ASIN", "input[name=\"ASIN\"]"}, "", "value" :> "B00PAGE123")>>,
      <<ElA({"[data-asin]"}, "", "data-asin" :> "b00page123")>> }

InitASIN ==
    /\ pc = "ready"
    /\ url \in Urls
    /\ doc \in AsinDocs
    /\ out = <<>>
    /\ AppConstructed /\ controlled = FALSE
    /\ WorkerIdle

ExtractASIN ==
    /\ pc = "ready"
    /\ pc' = "done"
    /\ out' = extractASIN(doc, url)
    /\ UNCHANGED <<url, doc>>
    /\ UNCHANGED <<pageVars, workerVars>>

NextASIN == ExtractASIN

SpecASIN == InitASIN /\ [][NextASIN]_vars

\* s.split(sep) for a one-character separator
RECURSIVE Split(_, _)
Split(s, sep) ==
    LET I == {i \in 1..Len(s) : Char(s, i) = sep}
    IN  IF I = {} THEN <<s>>
        ELSE <<SubSeq(s, 1, Least(I) - 1)>> \o Split(SubSeq(s, Least(I) + 1, Len(s)), sep)

\* the path of the URL: what follows the host, up to the query string
UrlPath(u) ==
    LET rest == SubSeq(u, Len(UrlBase) + 1, Len(u))
    IN  Split(rest, "?")[1]

\* the segments of the URL's path
PathSegments(u) == Tail(Split(UrlPath(u), "/"))

\* the path segments that are followed by a further slash
ClosedSegments(u) == SubSeq(PathSegments(u), 1, Len(PathSegments(u)) - 1)

IsAsinSegment(seg) == Len(seg) = 10 /\ AllIn(seg, UpperSet \cup Digits)

\* C2 as stated: a URL with a path segment of exactly 10 uppercase-alphanumeric
\* characters, wherever the segment occurs in the path, yields that segment
\* as the asin, whatever the page holds.
C2_AsinFromAnyPathSegment ==
    pc = "done" =>
        LET S == {seg \in Range(PathSegments(url)) : IsAsinSegment(seg)}
        IN  S # {} => out \in S

\* C2 amended: when some path segment of exactly 10 uppercase-alphanumeric
\* characters is followed by a slash, extractASIN returns the first such
\* segment, whatever the page holds.
C2_AsinFromFirstClosedSegment ==
    pc = "done" =>
        LET cs == ClosedSegments(url)
            I  == {i \in 1..Len(cs) : IsAsinSegment(cs[i])}
        IN  I # {} => out = cs[Least(I)]

\* C2 witness: the URL carries an ASIN segment followed by a slash, the page
\* carries another ASIN, and the URL's one was returned.
C2_Witness ==
    /\ pc = "done"
    /\ \E i \in 1..Len(ClosedSegments(url)) : IsAsinSegment(ClosedSegments(url)[i])
    /\ extractASINFromPage(doc) = "B00PAGE123"
    /\ out = "B08N5WRWNW"

-----------------------------------------------------------------------------
(* extractPricing on bounded documents *)

MaxPriceNodes == 3

PriceNodePool ==
    { El({".a-price .a-offscreen", "span"}, "$25.50"),
      El({".a-price.a-text-normal .a-offscreen", ".a-price .a-offscreen", "span"},
         "$1,200.00"),
      El({"#price_inside_buybox"}, " $10 "),
      El({".a-price-whole"}, "25."),
      El({".a-price.a-text-price .a-offscreen", ".a-price .a-offscreen", "span"},
         "$30.00"),
      El({".a-text-strike .a-offscreen"}, "$25.50"),
      El({".a-text-price"}, "List: $30.00"),
      El({"#listPrice .a-offscreen"}, "$1,500.00"),
      El({"[data-cy=\"original-price\"]"}, "$10.00"),
      El({"span"}, "$19.99"),
      El({"span"}, "from $5.00 a month"),
      El({".savingsPercentage", "span"}, "-20%"),
      El({".a-badge-text"}, "Save 60%"),
      El({"[data-cy=\"discount-percentage\"]"}, "15% off"),
      El({".a-badge-text"}, "Best Seller"),
      ElA({jsonLdSelector}, "", "offers.price" :> "20"),
      El({jsonLdSelector}, "") }

InitPricing ==
    /\ pc = "ready"
    /\ url = ""
    /\ doc \in SeqsUpTo(PriceNodePool, MaxPriceNodes)
    /\ out = <<>>
    /\ AppConstructed /\ controlled = FALSE
    /\ WorkerIdle

ExtractPricing ==
    /\ pc = "ready"
    /\ pc' = "done"
    /\ out' = extractPricing(doc)
    /\ UNCHANGED <<url, doc>>
    /\ UNCHANGED <<pageVars, workerVars>>

NextPricing == ExtractPricing

SpecPricing == InitPricing /\ [][NextPricing]_vars

-----------------------------------------------------------------------------
(* Claims about extractPricing *)

PriceKeys == {"originalPrice", "offerPrice", "offerPercentage", "amountSaved"}

\* an offer price is on the page: by a current-price selector, by the span
\* scan or in a JSON-LD block
OfferFound(d) ==
    \/ CurrentPriceBySelector(d) # ""
    \/ CurrentPriceBySpan(d) # ""
    \/ JsonLdPrice(d) # ""

\* an original price is on the page: an original-price selector holds a price
\* other than the current one
OriginalFound(d) == OriginalPriceBySelector(d, CurrentPriceBySelector(d)) # ""

\* C3: if exactly one of the offer price and the original price was found on
\* the page, by any of the extraction methods, then the returned record has
\* both offerPrice and originalPrice set, and they are string-equal.
C3_SinglePriceMirrored ==
    pc = "done" =>
        (OfferFound(doc) # OriginalFound(doc)
            => /\ Get(out, "offerPrice") # ""
               /\ Get(out, "originalPrice") = Get(out, "offerPrice"))

AllPriceSelectors ==
    Range(priceSelectorsCurrent) \cup Range(priceSelectorsOriginal)
        \cup Range(priceSelectorsDiscount)

NoPriceSelectorMatches(d) == \A sel \in AllPriceSelectors : Query(d, sel) = <<>>

NoPriceKey(r) == \A k \in PriceKeys : Get(r, k) = ""

\* C4 as stated: when none of the price selectors (current, original,
\* discount) matches any node, originalPrice, offerPrice, offerPercentage and
\* amountSaved are all empty or absent.
C4_NoSelectorNoPrice ==
    pc = "done" => (NoPriceSelectorMatches(doc) => NoPriceKey(out))

\* no span is a bare price and no JSON-LD block carries offers.price
NoFallbackPrice(d) ==
    \A i \in DOMAIN d :
        /\ "span" \in d[i].sels => ~BarePrice(Trim(d[i].text))
        /\ jsonLdSelector \in d[i].sels => Attr(d[i], "offers.price") = ""

\* C4 amended: when none of the price selectors matches any node, no span's
\* text is a bare price and no JSON-LD block carries an offer price, then
\* originalPrice, offerPrice, offerPercentage and amountSaved are all absent.
C4_NoSelectorNoFallbackNoPrice ==
    pc = "done" =>
        (NoPriceSelectorMatches(doc) /\ NoFallbackPrice(doc) => NoPriceKey(out))

\* C4 witness: a page with a span and a JSON-LD block, neither holding a
\* price, and no price selector matching: the record carries no price key.
C4_Witness ==
    /\ pc = "done"
    /\ NoPriceSelectorMatches(doc) /\ NoFallbackPrice(doc)
    /\ Query(doc, "span") # <<>>
    /\ Query(doc, jsonLdSelector) # <<>>
    /\ out = <<>>

\* what each price text of the bounded documents is worth, in cents
PriceTable ==
    [t \in {"$25.50", "$1,200.00", "$10", "$30.00", "List: $30.00", "$1,500.00",
            "$10.00", "$19.99", "20"} |->
        CASE t = "$25.50" -> 2550
          [] t = "$1,200.00" -> 120000
          [] t = "$10" -> 1000
          [] t = "$30.00" -> 3000
          [] t = "List: $30.00" -> 3000
          [] t = "$1,500.00" -> 150000
          [] t = "$10.00" -> 1000
          [] t = "$19.99" -> 1999
          [] t = "20" -> 2000]

\* C5: when both prices are found and the original is numerically greater
\* than the offer, amountSaved is original minus offer at 2 decimals and,
\* if no discount text was found, offerPercentage is
\* round((original - offer) / original * 100) followed by '% off'; when the
\* original is not greater, amountSaved is absent and no percentage is
\* computed.
C5_SavingsComputed ==
    pc = "done" /\ Get(out, "offerPrice") # "" /\ Get(out, "originalPrice") # "" =>
        LET original == PriceTable[out.originalPrice]
            offer    == PriceTable[out.offerPrice]
        IN  IF original > offer
            THEN /\ Get(out, "amountSaved") = ToFixed2(original - offer)
                 /\ DiscountBySelector(doc) = "" =>
                        Get(out, "offerPercentage") =
                            IntToString(RoundPercent(original - offer, original)) \o "% off"
            ELSE /\ Get(out, "amountSaved") = ""
                 /\ Get(out, "offerPercentage") = DiscountBySelector(doc)

-----------------------------------------------------------------------------
(* scrapeProduct as an operation: the page is fetched, then extracted *)

FetchErrors == {"timeout of 30000ms exceeded", "Request failed with status code 503"}

ScrapeProduct ==
    /\ pc = "ready"
    /\ \/ /\ pc' = "done"
          /\ out' = scrapeProduct(doc, url)
       \/ \E cause \in FetchErrors :
            /\ pc' = "failed"
            /\ out' = [error |-> "Failed to scrape product: " \o cause]
    /\ UNCHANGED <<url, doc>>
    /\ UNCHANGED <<pageVars, workerVars>>

-----------------------------------------------------------------------------
(* scrapeProduct on pages with long lists of colors, images and categories *)

\* how many blocks of list markup a page is made of
MaxBlocks == 2

\* how many entries beyond the largest cap a list block may hold
ExtraItems == 1

RECURSIVE Flatten(_)
Flatten(blocks) == IF blocks = <<>> THEN <<>> ELSE Head(blocks) \o Flatten(Tail(blocks))

ColorAt(i) == "Color " \o IntToString(i)

ImageAt(i, token) == "https://m.media-amazon.com/I/" \o IntToString(i) \o token \o ".jpg"

CategoryAt(i) == "Category " \o IntToString(i)

ListBlocks ==
    { \* a swatch list longer than the cap, named by title
      [i \in 1..(MaxColors + ExtraItems) |->
          ElA({"#variation_color_name li"}, "", "title" :> ColorAt(i))],
      \* the same colors again, as text, under two selectors at once
      [i \in 1..2 |-> El({"#color_name_list li", ".swatches li"}, " " \o ColorAt(i) \o " ")],
      \* thumbnails: a known color, a one-letter name, a new color
      <<ElA({".a-button-thumbnail img"}, "", "alt" :> ColorAt(3)),
        ElA({".a-button-thumbnail img"}, "", "alt" :> "X"),
        ElA({".swatches li"}, "", "img.alt" :> "Color 99")>>,
      \* a thumbnail strip longer than the cap
      [i \in 1..(MaxImages + ExtraItems) |->
          ElA({"#altImages img"}, "", "src" :> ImageAt(i, "._SS40_"))],
      \* the first images again at another size, a sprite, a foreign host
      <<ElA({"#imageBlock img", ".a-dynamic-image"}, "",
            "data-old-hires" :> ImageAt(1, "._SL1500_") @@ "src" :> ImageAt(1, "._SX38_")
            @@ "alt" :> "Front view"),
        ElA({"#imageBlock img"}, "", "src" :> ImageAt(2, "")),
        ElA({"#imageBlock img"}, "", "src" :> "https://m.media-amazon.com/I/sprite._V1_.png"),
        ElA({"#main-image"}, "", "data-src" :> "https://cdn.example.com/I/1.jpg")>>,
      \* a breadcrumb trail longer than the cap
      [i \in 1..(MaxCategories + ExtraItems) |->
          El({"#wayfinding-breadcrumbs_container a"}, CategoryAt(i))],
      \* a second navigation bar: a repeat, the site's name, a short text, a new one
      <<El({".a-breadcrumb a"}, " " \o CategoryAt(1) \o " "),
        El({".a-breadcrumb a", "#nav-subnav a"}, "Amazon Basics"),
        El({"#nav-subnav a"}, "TV"),
        El({"#nav-subnav a"}, "Deals")>>,
      \* a gallery under the later image selectors: new pictures, then the
      \* first picture at a third size
      [i \in 1..(MaxImages - 3) |->
          ElA({".a-dynamic-image"}, "", "data-src" :> ImageAt(9 + i, "._SX38_"))]
      \o <<ElA({"#main-image"}, "", "src" :> ImageAt(1, "._SX300_")),
           ElA({"[data-cy=\"product-image\"]"}, "",
               "data-large-image-url" :> ImageAt(20, "")),
           ElA({"[data-cy=\"product-image\"]"}, "",
               "data-large-image-url" :> ImageAt(21, ""))>> }

ListUrl == UrlBase \o "/dp/B08N5WRWNW"

InitLists ==
    /\ pc = "ready"
    /\ url = ListUrl
    /\ doc \in {Flatten(b) : b \in SeqsUpTo(ListBlocks, MaxBlocks)}
    /\ out = <<>>
    /\ AppConstructed /\ controlled = FALSE
    /\ WorkerIdle

NextLists == ScrapeProduct

SpecLists == InitLists /\ [][NextLists]_vars

NoDuplicates(a) == \A i, j \in DOMAIN a : i # j => a[i] # a[j]

-----------------------------------------------------------------------------
(* scrapeProduct on pages that vary the sources of the tags *)

\* how many words a title holds at most
MaxTitleWords == 9

TitleWords ==
    <<"Smart", "Professional", "Portable", "Waterproof", "Rechargeable",
      "Premium", "Wireless", "Bluetooth", "Speaker">>

WordAt(i) == IF i <= Len(TitleWords) THEN TitleWords[i] ELSE "Edition"

\* the words j..k, separated by blanks
TitleOf(j, k) == Join([i \in 1..(k - j + 1) |-> WordAt(j + i - 1)], " ")

\* the runs of words that start the list or end it
Titles ==
    {TitleOf(1, k) : k \in 1..MaxTitleWords}
    \cup {TitleOf(j, MaxTitleWords) : j \in 1..MaxTitleWords}

TitleParts == {<<>>} \cup {<<El({"#productTitle"}, " " \o t \o " ")>> : t \in Titles}

BrandParts ==
    { <<>>,
      <<El({"#bylineInfo"}, "Brand: Sony")>>,
      <<El({"#bylineInfo"}, "Visit the Sony Store")>>,
      <<El({"#bylineInfo"}, "Highly Rated")>>,
      <<El({"#bylineInfo"}, "Visit the Store"), El({"a[data-brand]"}, "Premium")>> }

RatingParts ==
    { <<>>,
      <<El({".a-icon-alt"}, "4.6 out of 5 stars")>>,
      <<El({".a-icon-alt"}, "4.0 out of 5 stars")>>,
      <<El({".a-icon-alt"}, "3.9 out of 5 stars")>> }

Offer(t) == El({".a-price .a-offscreen", "span"}, t)

WasPrice(t) == El({".a-text-price"}, t)

DiscountBadge(t) == El({".savingsPercentage", "span"}, t)

DealParts ==
    { <<>>,
      <<Offer("$25.00"), WasPrice("$50.00")>>,
      <<Offer("$40.00"), WasPrice("$50.00")>>,
      <<Offer("$25.00"), WasPrice("$49.00")>>,
      <<Offer("$41.00"), WasPrice("$50.00")>>,
      <<DiscountBadge("-20%")>>,
      <<DiscountBadge("Save 60%")>>,
      <<DiscountBadge("50% off")>>,
      <<DiscountBadge("15% off")>>,
      <<Offer("$25.00"), WasPrice("$50.00"), DiscountBadge("15% off")>> }

InitTags ==
    /\ pc = "ready"
    /\ url = ListUrl
    /\ doc \in {t \o b \o r \o p :
                  t \in TitleParts, b \in BrandParts, r \in RatingParts, p \in DealParts}
    /\ out = <<>>
    /\ AppConstructed /\ controlled = FALSE
    /\ WorkerIdle

NextTags == ScrapeProduct

SpecTags == InitTags /\ [][NextTags]_vars

-----------------------------------------------------------------------------
(* Claims about generateTags *)

\* a is b with some entries left out
RECURSIVE IsSubsequence(_, _)
IsSubsequence(a, b) ==
    IF a = <<>> THEN TRUE
    ELSE IF b = <<>> THEN FALSE
    ELSE IF Head(a) = Head(b) THEN IsSubsequence(Tail(a), Tail(b))
    ELSE IsSubsequence(a, Tail(b))

MappedTags == [i \in DOMAIN keywordTags |-> keywordTags[i][2]]

\* C7: generateTags returns at most 8 tags, no two string-equal, in discovery
\* order: brand, then 'Highly Rated', then the deal tag, then the keyword
\* tags in mapping order.
C7_TagsCappedUniqueOrdered ==
    pc = "done" =>
        /\ Len(out.tags) <= 8
        /\ NoDuplicates(out.tags)
        /\ IsSubsequence(out.tags,
               <<out.brand, "Highly Rated", "Great Deal", "Good Deal">> \o MappedTags)

\* what the rating texts of the bounded pages are worth, in tenths
RatingTenths(r) ==
    CASE r = "4.6" -> 46
      [] r = "4.0" -> 40
      [] r = "3.9" -> 39

RatedAtLeast4(r) == Get(r, "rating") # "" /\ RatingTenths(r.rating) >= 40

\* the mapped tags of the keywords that occur in the lower-cased title
KeywordTagsOf(title) ==
    {keywordTags[i][2] : i \in {i \in DOMAIN keywordTags :
                                    Includes(ToLower(title), keywordTags[i][1])}}

PercentIn(p) ==
    LET I == {i \in 1..Len(p) : IsDigit(Char(p, i))
                                 /\ StartsAt(p, SkipClass(p, i, Digits), "%")}
    IN  IF I = {} THEN 0
        ELSE DigitsValue(SubSeq(p, Least(I), SkipClass(p, Least(I), Digits) - 1))

\* C9: whether the discount percentage was computed by the extractor or
\* scraped as discount text, the tags contain 'Great Deal' exactly when the
\* discount is at least 50%, 'Good Deal' exactly when it is at least 20% and
\* below 50%, and neither tag otherwise.
C9_DealTagMatchesDiscount ==
    pc = "done" =>
        LET discount == PercentIn(Get(out, "offerPercentage"))
        IN  /\ InSeq(out.tags, "Great Deal") <=> discount >= 50
            /\ InSeq(out.tags, "Good Deal") <=> (discount >= 20 /\ discount < 50)

-----------------------------------------------------------------------------
(* scrapeProduct on mixed pages *)

\* how many element nodes a mixed page holds at most
MaxPageNodes == 2

PageNodePool ==
    { El({}, "Hello"),
      El({"div.unrelated"}, "$9.99 and 4.5 out of 5"),
      El({"#productTitle"}, " Sony WH-1000XM4 Wireless Headphones "),
      El({"h1 span"}, "Portable Charger"),
      El({"#bylineInfo"}, "Visit the Sony Store"),
      El({".po-brand .po-break-word"}, "by Anker"),
      El({".a-icon-alt"}, "4.6 out of 5 stars"),
      El({"#acrCustomerReviewText"}, "1,234 ratings"),
      El({".a-price .a-offscreen", "span"}, "$25.50"),
      El({".a-text-price"}, "List: $30.00"),
      ElA({jsonLdSelector}, "", "offers.price" :> "20"),
      ElA({".swatches li"}, "", "title" :> "Black"),
      ElA({"#altImages img"}, "", "src" :> ImageAt(1, "._SS40_")),
      El({".a-breadcrumb a"}, "Electronics"),
      El({"#feature-bullets ul li span"}, "Up to 30 hours of battery life"),
      ElA({"#tech tbody tr"}, "",
          "label" :> "Model Name" @@ "cell" :> "WH1000XM4" @@ "cell.last" :> "WH1000XM4"),
      ElA({"[data-asin]"}, "", "data-asin" :> "B00PAGE123") }

PageUrls ==
    {UrlBase \o "/dp/B08N5WRWNW/ref=sr_1_1", UrlBase \o "/dp/B08N5WRWNW", UrlBase \o "/gp/product"}

Init ==
    /\ pc = "ready"
    /\ url \in PageUrls
    /\ doc \in SeqsUpTo(PageNodePool, MaxPageNodes)
    /\ out = <<>>
    /\ AppConstructed /\ controlled = FALSE
    /\ WorkerIdle

Next == ScrapeProduct

Spec == Init /\ [][Next]_vars

\* every selector the extractor queries
AllSelectors ==
    Range(titleSelectors) \cup Range(brandSelectors) \cup Range(modelSelectors)
    \cup Range(asinSelectors) \cup AllPriceSelectors \cup {"span", jsonLdSelector}
    \cup Range(ratingSelectors) \cup Range(countSelectors) \cup Range(colorSelectors)
    \cup Range(aboutSelectors) \cup Range(techSelectors) \cup Range(imageSelectors)
    \cup Range(breadcrumbSelectors)

NoSelectorMatches(d) == \A sel \in AllSelectors : Query(d, sel) = <<>>

\* C10: for a document in which no selector matches any node, extraction
\* returns a record with every field at its empty default: "" for title,
\* brand, model, aboutItem and technicalData, the empty sequence for colors,
\* images, categories and tags, no price and no rating field, and an asin
\* that is empty unless the URL carries one.
C10_EmptyDocumentGivesDefaults ==
    pc = "done" /\ NoSelectorMatches(doc) =>
        /\ DOMAIN out = {"title", "brand", "model", "asin", "colors", "aboutItem",
                         "technicalData", "images", "categories", "tags"}
        /\ \A k \in {"title", "brand", "model", "aboutItem", "technicalData"} : out[k] = ""
        /\ \A k \in {"colors", "images", "categories", "tags"} : out[k] = <<>>
        /\ out.asin = "" \/ InSeq(PathSegments(url), out.asin)

\* C10 witness: a page that holds nodes, none of them matched by a selector,
\* was extracted, and its URL carries no ASIN between slashes.
C10_Witness ==
    /\ pc = "done"
    /\ Len(doc) = 2
    /\ NoSelectorMatches(doc)
    /\ out.asin = ""
    /\ out.tags = <<>>

-----------------------------------------------------------------------------
(* scrapeProduct on pages with several specification tables and breadcrumb bars *)

\* how many table rows and breadcrumb links a page of this kind holds at most
MaxSectionNodes == 3

TechRow(sels, label, value) ==
    ElA(sels, "", "label" :> label @@ "cell" :> value @@ "cell.last" :> value)

SectionNodePool ==
    { TechRow({"#tech tbody tr"}, " Weight ", " 254 g "),
      TechRow({"#tech tbody tr"}, "Color", "N/A"),
      TechRow({"#productDetails_detailBullets_sections1 tbody tr"}, "Batteries", "1 Lithium"),
      TechRow({"#productDetails_techSpec_section_1 tbody tr"}, "Connectivity", "Bluetooth"),
      TechRow({"#productDetails_techSpec_section_1 tbody tr"}, "Item Code", EmptyGlyph),
      TechRow({".a-keyvalue tbody tr"}, "Weight", "254 g"),
      El({"#wayfinding-breadcrumbs_container a"}, " Electronics "),
      El({"#wayfinding-breadcrumbs_container a"}, "Amazon Devices"),
      El({".a-breadcrumb a"}, "Headphones"),
      El({"#nav-subnav a"}, "TV"),
      El({"#nav-subnav a"}, "Electronics"),
      El({"[data-cy=\"breadcrumb\"] a"}, "Audio") }

InitSections ==
    /\ pc = "ready"
    /\ url = ListUrl
    /\ doc \in SeqsUpTo(SectionNodePool, MaxSectionNodes)
    /\ out = <<>>
    /\ AppConstructed /\ controlled = FALSE
    /\ WorkerIdle

NextSections == ScrapeProduct

SpecSections == InitSections /\ [][NextSections]_vars

-----------------------------------------------------------------------------
(* Claims about extractTechnicalData and extractCategories *)

\* the accepted rows of one technical-spec selector, as "label: value" lines
TechLinesOf(d, selector) == TechLines(SelectSeq(Query(d, selector), TechRowAccepted))

\* C11: technicalData holds the rows of exactly one selector, the first
\* technical-spec selector in priority order that yields an accepted
\* label/value row; rows matched by a later selector are not included.
C11_TechDataFromFirstSelector ==
    pc = "done" =>
        LET k == FirstOf({i \in DOMAIN techSelectors : TechLinesOf(doc, techSelectors[i]) # <<>>})
        IN  out.technicalData =
                IF k = 0 THEN "" ELSE Join(TechLinesOf(doc, techSelectors[k]), "\n")

\* the accepted texts of one breadcrumb selector
CategoriesOf(d, selector) == CollectCategories(Query(d, selector), <<>>)

\* C12: categories holds the entries of exactly one breadcrumb selector, the
\* first selector in priority order that yields an accepted text (longer than
\* 2 characters, not mentioning 'amazon'); texts matched by later selectors
\* are not included.
C12_CategoriesFromFirstSelector ==
    pc = "done" =>
        LET k == FirstOf({i \in DOMAIN breadcrumbSelectors :
                              CategoriesOf(doc, breadcrumbSelectors[i]) # <<>>})
        IN  out.categories =
                IF k = 0 THEN <<>>
                ELSE Slice(CategoriesOf(doc, breadcrumbSelectors[k]), MaxCategories)

-----------------------------------------------------------------------------
(* Claims about the price chains of extractPricing *)

\* a currency glyph immediately followed by a digit starts the text
LeadingCurrency(s) == Len(s) >= 2 /\ Char(s, 1) = "$" /\ IsDigit(Char(s, 2))

\* C13: every value extractPricing commits as offerPrice or originalPrice
\* passed the currency-shape check: it begins with a currency glyph
\* immediately followed by digits.
C13_CommittedPricesHaveCurrencyShape ==
    pc = "done" =>
        \A k \in {"offerPrice", "originalPrice"} :
            Get(out, k) # "" => LeadingCurrency(Get(out, k))

-----------------------------------------------------------------------------
(* scrapeProduct on pages where several selectors of one field match *)

\* how many element nodes a page of this kind holds at most
MaxChainNodes == 3

ChainNodePool ==
    { El({"#productTitle"}, "   "),
      El({"#productTitle"}, " Sony Headphones "),
      El({".product-title", "h1 span"}, "Portable Charger"),
      El({".a-price-current .a-offscreen"}, "Currently unavailable"),
      El({".a-price .a-offscreen", "span"}, " $25.50 "),
      El({".a-price .a-offscreen", "#price_inside_buybox", "span"}, "$27.00"),
      El({".a-text-price"}, "$30.00"),
      El({"span"}, "$19.99"),
      ElA({jsonLdSelector}, "", "offers.price" :> "20"),
      El({".a-badge-text"}, "Best Seller"),
      El({".savingsPercentage"}, "-20%"),
      El({".a-size-large.a-color-price"}, " 15% off ") }

InitChains ==
    /\ pc = "ready"
    /\ url = ListUrl
    /\ doc \in SeqsUpTo(ChainNodePool, MaxChainNodes)
    /\ out = <<>>
    /\ AppConstructed /\ controlled = FALSE
    /\ WorkerIdle

NextChains == ScrapeProduct

SpecChains == InitChains /\ [][NextChains]_vars

\* the lowest index of a title selector whose first node has text, 0 if none
TitleChoice(d) ==
    FirstOf({i \in DOMAIN titleSelectors : FirstText(d, titleSelectors[i]) # ""})

\* the lowest index of a current-price selector whose first node's text has
\* the currency shape, 0 if none
OfferChoice(d) ==
    FirstOf({i \in DOMAIN priceSelectorsCurrent :
                 PriceShape(FirstText(d, priceSelectorsCurrent[i]))})

\* the lowest index of a discount selector whose first node's text holds a
\* percentage, 0 if none
DiscountChoice(d) ==
    FirstOf({i \in DOMAIN priceSelectorsDiscount :
                 DiscountShape(FirstText(d, priceSelectorsDiscount[i]))})

\* C14: for the title, the offer price and the discount percentage, the value
\* returned is the trimmed text of the first matched node of the lowest-index
\* selector, in the field's priority order, whose text is non-empty and passes
\* the field's validation; values of later selectors are never used or merged
\* in.
C14_FirstValidSelectorWins ==
    pc = "done" =>
        /\ out.title = IF TitleChoice(doc) = 0 THEN ""
                       ELSE FirstText(doc, titleSelectors[TitleChoice(doc)])
        /\ OfferChoice(doc) # 0
              => Get(out, "offerPrice") = FirstText(doc, priceSelectorsCurrent[OfferChoice(doc)])
        /\ DiscountChoice(doc) # 0
              => Get(out, "offerPercentage")
                     = FirstText(doc, priceSelectorsDiscount[DiscountChoice(doc)])

\* C14 witness: the first node of a higher-priority price selector fails the
\* validation, two nodes match the selector that wins, and a structured-data
\* price is on the page too: the text of the winner's first node is returned.
C14_Witness ==
    /\ pc = "done"
    /\ Len(doc) = 3
    /\ doc[1].text = "Currently unavailable"
    /\ doc[2].text = "$27.00"
    /\ doc[3].text = " $25.50 "
    /\ OfferChoice(doc) = 3
    /\ out.offerPrice = "$27.00"

-----------------------------------------------------------------------------
(* Claims about the independence of the two price chains *)

\* two documents agree on every original-price selector match
AgreeOnOriginal(d1, d2) ==
    \A i \in DOMAIN priceSelectorsOriginal :
        Query(d1, priceSelectorsOriginal[i]) = Query(d2, priceSelectorsOriginal[i])

\* the original price the original-price chain found for document d, read
\* from the record r returned for d ("" when the chain found none and the
\* record's originalPrice, if any, is the mirrored offer price)
OriginalByChain(d, r) == IF OriginalFound(d) THEN Get(r, "originalPrice") ELSE ""

\* C15: the offer-price chain and the original-price chain are independent:
\* any document that agrees with the extracted one on every original-price
\* selector match gets the same original price from the original-price chain,
\* whatever the offer-price chain found.
C15_OriginalChainIndependent ==
    pc = "done" =>
        \A d2 \in SeqsUpTo(PriceNodePool, MaxPriceNodes) :
            AgreeOnOriginal(doc, d2)
                => OriginalByChain(d2, extractPricing(d2)) = OriginalByChain(doc, out)

-----------------------------------------------------------------------------
(* Claims about extractImages *)

\* the rewritten URLs of the image nodes in discovery order (selector by
\* selector, document order within a selector) that pass the acceptance test
AcceptedImageUrls(d) ==
    LET nodes == QueryAll(d, imageSelectors)
        urls  == [i \in DOMAIN nodes |->
                     IF ImageSrc(nodes[i]) = "" THEN "" ELSE HighResUrl(ImageSrc(nodes[i]))]
    IN  SelectSeq(urls, LAMBDA u : u # "" /\ Includes(u, "amazon") /\ ~Includes(u, "sprite"))

\* a sequence without the later occurrences of its entries
RECURSIVE FirstOccurrences(_, _)
FirstOccurrences(a, kept) ==
    IF a = <<>> THEN kept
    ELSE FirstOccurrences(Tail(a), IF InSeq(kept, Head(a)) THEN kept ELSE Append(kept, Head(a)))

ImageUrls(r) == [i \in DOMAIN r.images |-> r.images[i].url]

\* C16: extractImages returns the first 6 distinct accepted image URLs in
\* discovery order across all image selectors (a union, not a first-match
\* chain); every returned URL contains 'amazon', contains no 'sprite', and no
\* URL appears twice after the resolution rewrite.
C16_ImagesUnionFirstSix ==
    pc = "done" =>
        /\ ImageUrls(out) = Slice(FirstOccurrences(AcceptedImageUrls(doc), <<>>), 6)
        /\ \A i \in DOMAIN out.images :
              /\ Includes(out.images[i].url, "amazon")
              /\ ~Includes(out.images[i].url, "sprite")
        /\ NoDuplicates(ImageUrls(out))

\* C16 witness: no thumbnail strip; the pictures come from the image block
\* and the gallery, the first picture shows up at three sizes, a sprite and a
\* foreign host are among them, seven distinct pictures are accepted: six URLs
\* come back, from three selectors.
C16_Witness ==
    /\ pc = "done"
    /\ Query(doc, "#altImages img") = <<>>
    /\ Len(Query(doc, "#imageBlock img")) = 3
    /\ Len(Query(doc, ".a-dynamic-image")) = 4
    /\ Len(Query(doc, "[data-cy=\"product-image\"]")) = 2
    /\ \E i \in DOMAIN doc : Includes(ImageSrc(doc[i]), "sprite")
    /\ Len(out.images) = 6
    /\ out.images[1].url = ImageAt(1, "._AC_SX500_")
    /\ out.images[2].url = ImageAt(2, "")
    /\ out.images[6].url = ImageAt(20, "")

-----------------------------------------------------------------------------
(* The page application (src/script.js), the routes of src/server.js it calls *)
(* and the service worker's handler (src/sw.js) in between: operators        *)

\* new URL(url): the index after the scheme of an absolute http(s) URL, 0
\* when the constructor throws
SchemeEnd(u) ==
    IF StartsAt(u, 1, "https://") THEN 9
    ELSE IF StartsAt(u, 1, "http://") THEN 8
    ELSE 0

\* the index of the first of the characters C at or after index i, Len+1 if none
FirstIndexOf(u, i, C) ==
    LET I == {j \in i..Len(u) : Char(u, j) \in C} IN IF I = {} THEN Len(u) + 1 ELSE Least(I)

\* urlObj.hostname
Hostname(u) == SubSeq(u, SchemeEnd(u), FirstIndexOf(u, SchemeEnd(u), {"/", "?", "#"}) - 1)

\* urlObj.pathname
Pathname(u) ==
    LET b == FirstIndexOf(u, SchemeEnd(u), {"/", "?", "#"})
    IN  IF b > Len(u) \/ Char(u, b) # "/" THEN "/"
        ELSE SubSeq(u, b, FirstIndexOf(u, b, {"?", "#"}) - 1)

isValidAmazonUrl(u) ==
    /\ SchemeEnd(u) # 0
    /\ Hostname(u) # ""
    /\ Includes(Hostname(u), "amazon.")
    /\ Includes(Pathname(u), "/dp/") \/ Includes(Pathname(u), "/gp/product/")

\* an HTTP response: its status and its parsed JSON body
Response(status, body) == [status |-> status, body |-> body]

\* fetch() rejecting: no response, only an error with a message
NetworkError == [status |-> 0, body |-> [message |-> "Failed to fetch"]]

Rejected(resp) == resp.status = 0

\* response.ok
IsOk(resp) == resp.status >= 200 /\ resp.status <= 299

\* the pages the product URLs may serve
AppPages ==
    { <<El({"#productTitle"}, " Sony WH-1000XM4 Wireless Headphones "),
        El({".a-price .a-offscreen", "span"}, "$25.50"),
        ElA({"#altImages img"}, "", "src" :> ImageAt(1, "._SS40_")),
        ElA({"#altImages img"}, "", "src" :> ImageAt(2, "._SS40_"))>>,
      <<El({"#productTitle"}, "Portable Charger")>>,
      <<>> }

\* POST /api/scrape with body {url: u}: the responses the route can send
ApiScrapeResponses(u) ==
    IF u = "" THEN {Response(400, [error |-> "URL is required"])}
    ELSE IF ~Includes(u, "amazon.")
    THEN {Response(400, [error |-> "Please provide a valid Amazon product URL"])}
    ELSE {Response(200, scrapeProduct(d, u)) : d \in AppPages}
         \cup {Response(500, [error |-> "Failed to scrape product: " \o cause]) :
                  cause \in FetchErrors}

OfflineResponse ==
    Response(503, [error |-> "Service unavailable offline", offline |-> TRUE,
                   message |-> "Please check your internet connection and try again."])

\* handleApiRequest for POST /api/scrape: what the page's fetch resolves with,
\* given what the worker's own fetch gave
handleApiRequest(resp) ==
    IF ~Rejected(resp) /\ IsOk(resp) THEN resp ELSE OfflineResponse

\* the message of the error extractProduct throws for a response, "" if none
ExtractionError_None(resp) == ""

ExtractionError(resp) ==
    IF Rejected(resp) THEN resp.body.message
    ELSE IF ~IsOk(resp) THEN "Server error: " \o IntToString(resp.status)
    ELSE IF Get(resp.body, "error") # "" THEN resp.body.error
    ELSE ""

Toast(message, type) == [message |-> message, type |-> type]

\* record.key || [], for the list fields of a product
GetList(r, k) == IF k \in DOMAIN r THEN r[k] ELSE <<>>

\* setChipValues then getChipValues: addChip skips empty values
Chips(values) == SelectSeq(values, LAMBDA v : v # "")

\* populateForm(product): the form fields after it ran
populateForm(product) ==
    [title |-> Get(product, "title"), brand |-> Get(product, "brand"),
     model |-> Get(product, "model"), asin |-> Get(product, "asin"),
     rating |-> Get(product, "rating"), ratingCount |-> Get(product, "ratingCount"),
     originalPrice |-> Get(product, "originalPrice"),
     offerPrice |-> Get(product, "offerPrice"),
     offerPercentage |-> Get(product, "offerPercentage"),
     amountSaved |-> Get(product, "amountSaved"),
     aboutItem |-> Get(product, "aboutItem"),
     technicalData |-> Get(product, "technicalData"),
     colors |-> Chips(GetList(product, "colors")),
     categories |-> Chips(GetList(product, "categories")),
     tags |-> Chips(GetList(product, "tags"))]

\* the characters sanitizeFileName replaces: /[<>:"/\\|?*]/ and \s
UnsafeFileChars == {"<", ">", ":", "\"", "/", "\\", "|", "?", "*"} \cup Whitespace

\* every unsafe character becomes "_" and runs of "_" shrink to one
RECURSIVE UnderscoreRuns(_, _)
UnderscoreRuns(s, acc) ==
    IF s = "" THEN acc
    ELSE LET c == IF Head(s) \in UnsafeFileChars THEN "_" ELSE Head(s)
         IN  UnderscoreRuns(Tail(s),
                 IF c = "_" /\ acc # "" /\ Char(acc, Len(acc)) = "_" THEN acc ELSE acc \o c)

MaxFileName == 50

sanitizeFileName(fileName) ==
    IF fileName = "" THEN "unknown-product"
    ELSE LET a == UnderscoreRuns(fileName, "")
             b == IF a # "" /\ Char(a, 1) = "_" THEN Tail(a) ELSE a
             c == IF b # "" /\ Char(b, Len(b)) = "_" THEN SubSeq(b, 1, Len(b) - 1) ELSE b
         IN  SubSeq(c, 1, IF Len(c) < MaxFileName THEN Len(c) ELSE MaxFileName)

\* whether downloadProductImages marks the image: the response is ok and its
\* body could be read
Downloaded_Always(outcome) == TRUE

Downloaded(outcome) == outcome = "ok"

\* what a POST /api/download-image can come to, seen from the page
DownloadOutcomes == {"ok", "error status", "network error", "body error"}

\* an entry of the download log
LogEntry(event, product, index) == [event |-> event, product |-> product, index |-> index]

\* JSON.parse(JSON.stringify(products)): the records with their images arrays
Stringify(prods, heap) ==
    [i \in DOMAIN prods |-> [images |-> heap[prods[i].images]] @@ prods[i]]

-----------------------------------------------------------------------------
(* The page application: actions *)

\* how many extraction requests the page issues at most
MaxExtractions == 2

\* how many toasts the user's own actions may add up to
MaxToasts == 2

\* what the user may have typed into the URL field
UrlInputs ==
    {"", "https://example.com/dp/B08N5WRWNW",
     " https://www.amazon.com/dp/B08N5WRWNW/ref=sr_1_1 ",
     "https://www.amazon.com/dp/B08N5WRWNW/ref=sr_1_1",
     "https://www.amazon.com/gp/help/customer/display.html"}

\* the URL extractProduct reads from the field, per typed input
TrimmedInput == [input \in UrlInputs |-> Trim(input)]

\* isValidAmazonUrl over the URLs the field can hold
ValidUrl == [u \in Range(TrimmedInput) |-> isValidAmazonUrl(u)]

\* POST /api/scrape over the URLs the page can send
ScrapeRoute == [u \in {v \in Range(TrimmedInput) : ValidUrl[v]} |-> ApiScrapeResponses(u)]

InitApp ==
    /\ pc = "ready"
    /\ url = ""
    /\ doc = <<>>
    /\ out = <<>>
    /\ AppConstructed
    /\ WorkerIdle
    /\ controlled \in BOOLEAN

\* extractProduct up to its fetch: the Extract button is clicked or Enter is
\* pressed with `input` in the URL field
ExtractProduct(input) ==
    /\ Len(scrapes) < MaxExtractions
    /\ Len(toasts) < MaxToasts
    /\ IF TrimmedInput[input] = ""
       THEN /\ toasts' = Append(toasts, Toast("Please enter a product URL", "error"))
            /\ UNCHANGED scrapes
       ELSE IF ~ValidUrl[TrimmedInput[input]]
       THEN /\ toasts' = Append(toasts, Toast("Please enter a valid Amazon product URL", "error"))
            /\ UNCHANGED scrapes
       ELSE /\ scrapes' = Append(scrapes, [url |-> TrimmedInput[input], stage |-> "sent",
                                           served |-> Null, response |-> Null])
            /\ UNCHANGED toasts
    /\ UNCHANGED <<products, currentProduct, isEditing, form, storage, imageHeap, clock,
                   controlled, downloads, log>>
    /\ UNCHANGED <<serverVars, workerVars, filterVars>>

\* the request reaches the server, which answers, or the network fails
ApiScrape(k) ==
    /\ scrapes[k].stage = "sent"
    /\ \E resp \in ScrapeRoute[scrapes[k].url] \cup {NetworkError} :
          scrapes' = [scrapes EXCEPT ![k].stage = "served", ![k].served = resp,
                                     ![k].response = resp]
    /\ UNCHANGED <<products, currentProduct, isEditing, form, storage, toasts, imageHeap,
                   clock, controlled, downloads, log>>
    /\ UNCHANGED <<serverVars, workerVars, filterVars>>

\* the service worker's handler resumes after its own fetch
HandleApiRequest(k) ==
    /\ controlled
    /\ scrapes[k].stage = "served"
    /\ scrapes' = [scrapes EXCEPT ![k].stage = "relayed",
                                  ![k].response = handleApiRequest(scrapes[k].served)]
    /\ UNCHANGED <<products, currentProduct, isEditing, form, storage, toasts, imageHeap,
                   clock, controlled, downloads, log>>
    /\ UNCHANGED <<serverVars, workerVars, filterVars>>

\* the page's fetch has settled for request k
Settled(k) == scrapes[k].stage = IF controlled THEN "relayed" ELSE "served"

\* the runs of downloadProductImages once this.currentProduct refers to another
\* object than the one any of them was given
NotCurrent(runs) == [j \in DOMAIN runs |-> [runs[j] EXCEPT !.current = FALSE]]

\* extractProduct from its fetch on; `id` is what Date.now() returns
ExtractProductResume(k, id) ==
    /\ Settled(k)
    /\ scrapes' = [scrapes EXCEPT ![k].stage = "closed", ![k].served = Null,
                                  ![k].response = Null]
    /\ LET resp == scrapes[k].response
           productData == resp.body
           product == [images |-> clock] @@ productData
                      @@ [id |-> id, url |-> scrapes[k].url, extractedAt |-> clock]
       IN  IF ExtractionError(resp) # ""
           THEN /\ toasts' = Append(toasts, Toast("Extraction failed: "
                                                  \o ExtractionError(resp), "error"))
                /\ UNCHANGED <<currentProduct, isEditing, form, imageHeap, clock,
                               downloads, log>>
           ELSE /\ currentProduct' = product
                /\ form' = populateForm(product)
                /\ isEditing' = TRUE
                /\ toasts' = Append(toasts, Toast("Product data extracted successfully!",
                                                  "success"))
                /\ imageHeap' = (clock :> GetList(productData, "images")) @@ imageHeap
                /\ clock' = clock + 1
                /\ IF GetList(productData, "images") # <<>>
                   THEN /\ downloads' = Append(NotCurrent(downloads),
                               [product |-> clock, title |-> Get(productData, "title"),
                                i |-> 1, inFlight |-> TRUE, current |-> TRUE])
                        /\ log' = Append(log, <<LogEntry("request", clock, 1)>>)
                   ELSE /\ downloads' = NotCurrent(downloads)
                        /\ UNCHANGED log
    /\ UNCHANGED <<products, storage, controlled>>
    /\ UNCHANGED <<serverVars, workerVars, filterVars>>

NextIndex_Skip(i) == i + 2

\* the loop variable of downloadProductImages after one turn
NextIndex(i) == i + 1

\* the images array of record p with the flag of image i set
MarkDownloaded(heap, p, i) == [heap EXCEPT ![p][i].downloaded = TRUE]

\* one turn of the loop of downloadProductImages: the request for image
\* downloads[j].i settles with `outcome`, and the loop goes on to the next
\* image or, after the last one, to its closing toast
DownloadResume(j, outcome) ==
    /\ downloads[j].inFlight
    /\ LET run == downloads[j]
           settled == LogEntry(IF outcome = "ok" THEN "downloaded" ELSE "failed",
                               run.product, run.i)
       IN  /\ imageHeap' = IF Downloaded(outcome)
                           THEN MarkDownloaded(imageHeap, run.product, run.i)
                           ELSE imageHeap
           /\ IF run.i < Len(imageHeap[run.product])
              THEN /\ downloads' = [downloads EXCEPT ![j].i = NextIndex(run.i)]
                   /\ log' = [log EXCEPT ![j] = @ \o <<settled,
                                      LogEntry("request", run.product, NextIndex(run.i))>>]
                   /\ UNCHANGED toasts
              ELSE /\ downloads' = [downloads EXCEPT ![j].inFlight = FALSE]
                   /\ log' = [log EXCEPT ![j] = Append(@, settled)]
                   /\ toasts' = Append(toasts, Toast("Images downloaded to folder: "
                                                     \o sanitizeFileName(run.title), "success"))
    /\ UNCHANGED <<products, currentProduct, isEditing, form, storage, clock, controlled,
                   scrapes>>
    /\ UNCHANGED <<serverVars, workerVars, filterVars>>

findIndex_Never(prods, id) == 0

\* the index of the catalog entry with this id, 0 if none
findIndex(prods, id) ==
    IF \E i \in DOMAIN prods : prods[i].id = id
    THEN CHOOSE i \in DOMAIN prods :
             prods[i].id = id /\ \A h \in 1..(i - 1) : prods[h].id # id
    ELSE 0

\* Math.floor(parseFloat(s)) as <<n>>, or <<>> when parseFloat gives NaN; the
\* texts of the model carry no exponent
RatingFloor(s) ==
    LET t    == TrimLeft(s)
        neg  == t # "" /\ Head(t) = "-"
        u    == IF t # "" /\ Head(t) \in {"-", "+"} THEN Tail(t) ELSE t
        j    == SkipClass(u, 1, Digits)
        int  == SubSeq(u, 1, j - 1)
        k    == IF j <= Len(u) /\ Char(u, j) = "." THEN SkipClass(u, j + 1, Digits) ELSE j
        frac == SubSeq(u, j + 1, k - 1)
    IN  IF int = "" /\ frac = "" THEN <<>>
        ELSE IF ~neg THEN <<DigitsValue(int)>>
        ELSE IF DigitsValue(frac) > 0 THEN <<0 - DigitsValue(int) - 1>>
        ELSE <<0 - DigitsValue(int)>>

\* createProductCard(product) throws: String.prototype.repeat is given a
\* negative count, by Math.floor(rating) or by 5 - Math.floor(rating)
CardThrows(product) ==
    LET floor == RatingFloor(Get(product, "rating"))
    IN  /\ Get(product, "rating") # ""
        /\ floor # <<>>
        /\ (floor[1] < 0 \/ 5 - floor[1] < 0)

\* [a, b, ...].join(' ')
RECURSIVE JoinSpaced(_)
JoinSpaced(texts) ==
    IF texts = <<>> THEN ""
    ELSE IF Len(texts) = 1 THEN texts[1]
    ELSE texts[1] \o " " \o JoinSpaced(Tail(texts))

\* getFilteredProducts: the catalog entries that pass this.filters
getFilteredProducts(prods, f) ==
    SelectSeq(prods, LAMBDA product :
        /\ f.search # ""
              => Includes(ToLower(JoinSpaced(<<Get(product, "title"), Get(product, "brand"),
                                               Get(product, "model"), Get(product, "asin")>>
                                             \o GetList(product, "categories")
                                             \o GetList(product, "tags"))),
                          ToLower(f.search))
        /\ f.brand # "" => Get(product, "brand") = f.brand
        /\ f.category # ""
              => \E i \in DOMAIN GetList(product, "categories") :
                    product.categories[i] = f.category)

\* renderProducts throws: the card of a product that passes the filters does
RenderThrows(prods, f) ==
    \E i \in DOMAIN getFilteredProducts(prods, f) :
       CardThrows(getFilteredProducts(prods, f)[i])

\* updateFilters: both dropdowns get new options, built from the catalog, and
\* so show their first option, the one with the empty value
updateFilters(prods) ==
    [brand |-> "", category |-> "",
     brands |-> {Get(prods[i], "brand") : i \in DOMAIN prods} \ {""},
     categories |-> UNION {{prods[i].categories[c] : c \in DOMAIN GetList(prods[i], "categories")}
                              : i \in DOMAIN prods}]

\* the toast of the page's global error handler
UnexpectedError == Toast("An unexpected error occurred", "error")

\* saveProducts: `stored` tells whether localStorage.setItem succeeds
saveProducts(prods, heap, stored, store) == IF stored THEN Stringify(prods, heap) ELSE store

\* the toast saveProducts shows when setItem throws
SaveFailure(stored) ==
    IF stored THEN <<>> ELSE <<Toast("Failed to save products to local storage", "error")>>

TitleMissing_EmptyOnly(formData) == formData.title = ""

\* the form has no title to save
TitleMissing(formData) == Trim(formData.title) = ""

\* saveProduct: the Save button is clicked; `stored` tells whether
\* localStorage.setItem succeeds.  When renderProducts throws, the handler ends
\* there and the page's error handler shows its toast.
SaveProduct(stored) ==
    /\ currentProduct # Null
    /\ Len(toasts) < MaxToasts
    /\ IF TitleMissing(form)
       THEN /\ toasts' = Append(toasts, Toast("Product title is required", "error"))
            /\ UNCHANGED <<products, currentProduct, isEditing, form, storage,
                           downloads, dropdowns>>
       ELSE LET saved == [updatedAt |-> clock] @@ form @@ currentProduct
                existingIndex == findIndex(products, saved.id)
                catalog == IF existingIndex # 0
                           THEN [products EXCEPT ![existingIndex] = saved]
                           ELSE Append(products, saved)
                thrown == RenderThrows(catalog, filters)
            IN  /\ products' = catalog
                /\ storage' = saveProducts(catalog, imageHeap, stored, storage)
                /\ downloads' = [j \in DOMAIN downloads |->
                                    IF downloads[j].current
                                    THEN [downloads[j] EXCEPT !.title = saved.title,
                                                              !.current = thrown]
                                    ELSE downloads[j]]
                /\ IF thrown
                   THEN /\ currentProduct' = saved
                        /\ toasts' = toasts \o SaveFailure(stored) \o <<UnexpectedError>>
                        /\ UNCHANGED <<isEditing, form, dropdowns>>
                   ELSE /\ dropdowns' = updateFilters(catalog)
                        /\ isEditing' = FALSE
                        /\ currentProduct' = Null
                        /\ form' = EmptyForm
                        /\ toasts' = toasts \o SaveFailure(stored)
                                        \o <<Toast("Product saved successfully!", "success")>>
    /\ UNCHANGED <<imageHeap, clock, controlled, scrapes, log, filters>>
    /\ UNCHANGED <<serverVars, workerVars>>

\* cancelEditing: the Cancel button is clicked or Escape is pressed
CancelEditing ==
    /\ isEditing
    /\ isEditing' = FALSE
    /\ currentProduct' = Null
    /\ form' = EmptyForm
    /\ downloads' = NotCurrent(downloads)
    /\ UNCHANGED <<products, storage, toasts, imageHeap, clock, controlled, scrapes, log>>
    /\ UNCHANGED <<serverVars, workerVars, filterVars>>

NextApp ==
    \/ \E input \in UrlInputs : ExtractProduct(input)
    \/ \E k \in DOMAIN scrapes : ApiScrape(k)
    \/ \E k \in DOMAIN scrapes : HandleApiRequest(k)
    \/ \E k \in DOMAIN scrapes : ExtractProductResume(k, clock)
    \/ \E j \in DOMAIN downloads : \E outcome \in DownloadOutcomes : DownloadResume(j, outcome)
    \/ \E stored \in BOOLEAN : SaveProduct(stored)
    \/ CancelEditing

SpecApp == InitApp /\ [][NextApp]_vars

-----------------------------------------------------------------------------
(* The page application: the catalog, its editor and its filters *)

\* products.find: the first catalog entry with this id, which some entry has
find(prods, id) ==
    prods[CHOOSE i \in DOMAIN prods :
              prods[i].id = id /\ \A h \in 1..(i - 1) : prods[h].id # id]

\* editProduct(productId): the Edit button of the card of catalog entry i
EditProduct(i) ==
    /\ i \in DOMAIN products
    /\ currentProduct' = find(products, products[i].id)
    /\ form' = populateForm(currentProduct')
    /\ isEditing' = TRUE
    /\ downloads' = NotCurrent(downloads)
    /\ UNCHANGED <<products, storage, toasts, imageHeap, clock, controlled, scrapes, log>>
    /\ UNCHANGED <<serverVars, workerVars, filterVars>>

\* deleteProduct(productId), confirmed: the Delete button of the card of
\* catalog entry i
DeleteProduct(i, stored) ==
    /\ i \in DOMAIN products
    /\ Len(toasts) < MaxToasts
    /\ LET catalog == SelectSeq(products, LAMBDA p : p.id # products[i].id)
       IN  /\ products' = catalog
           /\ storage' = saveProducts(catalog, imageHeap, stored, storage)
           /\ IF RenderThrows(catalog, filters)
              THEN /\ toasts' = toasts \o SaveFailure(stored) \o <<UnexpectedError>>
                   /\ UNCHANGED dropdowns
              ELSE /\ dropdowns' = updateFilters(catalog)
                   /\ toasts' = toasts \o SaveFailure(stored)
                                   \o <<Toast("Product deleted successfully", "success")>>
    /\ UNCHANGED <<currentProduct, isEditing, form, imageHeap, clock, controlled, scrapes,
                   downloads, log, filters>>
    /\ UNCHANGED <<serverVars, workerVars>>

\* clearAllProducts: the Clear All button is clicked and, when there is
\* something to clear, confirmed
ClearAllProducts(stored) ==
    /\ Len(toasts) < MaxToasts
    /\ IF products = <<>>
       THEN /\ toasts' = Append(toasts, Toast("No products to clear", "warning"))
            /\ UNCHANGED <<products, storage, dropdowns>>
       ELSE /\ products' = <<>>
            /\ storage' = saveProducts(<<>>, imageHeap, stored, storage)
            /\ dropdowns' = updateFilters(<<>>)
            /\ toasts' = toasts \o SaveFailure(stored)
                            \o <<Toast("All products cleared successfully", "success")>>
    /\ UNCHANGED <<currentProduct, isEditing, form, imageHeap, clock, controlled, scrapes,
                   downloads, log, filters>>
    /\ UNCHANGED <<serverVars, workerVars>>

\* the toast that follows a handler whose last call is renderProducts
RenderToast(prods, f) == IF RenderThrows(prods, f) THEN <<UnexpectedError>> ELSE <<>>

\* handleBrandFilter: the user picks an option of the brand dropdown
HandleBrandFilter(brand) ==
    /\ brand \in dropdowns.brands \cup {""}
    /\ brand # dropdowns.brand
    /\ Len(toasts) < MaxToasts
    /\ dropdowns' = [dropdowns EXCEPT !.brand = brand]
    /\ filters' = [filters EXCEPT !.brand = brand]
    /\ toasts' = toasts \o RenderToast(products, filters')
    /\ UNCHANGED <<products, currentProduct, isEditing, form, storage, imageHeap, clock,
                   controlled, scrapes, downloads, log>>
    /\ UNCHANGED <<serverVars, workerVars>>

\* handleCategoryFilter: the user picks an option of the category dropdown
HandleCategoryFilter(category) ==
    /\ category \in dropdowns.categories \cup {""}
    /\ category # dropdowns.category
    /\ Len(toasts) < MaxToasts
    /\ dropdowns' = [dropdowns EXCEPT !.category = category]
    /\ filters' = [filters EXCEPT !.category = category]
    /\ toasts' = toasts \o RenderToast(products, filters')
    /\ UNCHANGED <<products, currentProduct, isEditing, form, storage, imageHeap, clock,
                   controlled, scrapes, downloads, log>>
    /\ UNCHANGED <<serverVars, workerVars>>

\* clearFilters: the Clear Filters button is clicked
ClearFilters ==
    /\ Len(toasts) < MaxToasts
    /\ filters' = [search |-> "", brand |-> "", category |-> ""]
    /\ dropdowns' = [dropdowns EXCEPT !.brand = "", !.category = ""]
    /\ toasts' = toasts \o RenderToast(products, filters')
    /\ UNCHANGED <<products, currentProduct, isEditing, form, storage, imageHeap, clock,
                   controlled, scrapes, downloads, log>>
    /\ UNCHANGED <<serverVars, workerVars>>

\* what the user may type into a field of the open editor
FormEdits == {<<"title", "   ">>, <<"rating", "7">>}

\* the user replaces the value of a form field
TypeField(field, value) ==
    /\ isEditing
    /\ form[field] # value
    /\ form' = [form EXCEPT ![field] = value]
    /\ UNCHANGED <<products, currentProduct, isEditing, storage, toasts, imageHeap, clock,
                   controlled, scrapes, downloads, log>>
    /\ UNCHANGED <<serverVars, workerVars, filterVars>>

\* what Date.now() may return: the time, or again the time at which an entry
\* of the catalog was made
Now == {clock} \cup {products[i].id : i \in DOMAIN products}

\* the URL of the catalog scenarios
CatalogUrl == "https://www.amazon.com/dp/B08N5WRWNW/ref=sr_1_1"

\* the pages whose records an earlier session may have saved
SessionPages ==
    << <<El({"#productTitle"}, "Sony WH-1000XM4 Wireless Headphones"),
         El({"#bylineInfo"}, "Brand: Sony"),
         El({"#wayfinding-breadcrumbs_container a"}, "Electronics"),
         El({".a-icon-alt"}, "4.5 out of 5 stars")>>,
       <<El({"#productTitle"}, "Anker Portable Charger"),
         El({"#bylineInfo"}, "Brand: Anker"),
         El({"#wayfinding-breadcrumbs_container a"}, "Accessories")>> >>

\* the record an earlier session stored for page d, extracted and saved
\* unedited at time n
StoredRecord(d, n) ==
    LET product == scrapeProduct(d, CatalogUrl)
                   @@ [id |-> n, url |-> CatalogUrl, extractedAt |-> n]
    IN  [updatedAt |-> n] @@ populateForm(product) @@ product

\* what localStorage may hold when the page is opened
StoredCatalogs ==
    {Null,
     <<StoredRecord(SessionPages[1], 1)>>,
     <<StoredRecord(SessionPages[1], 1), StoredRecord(SessionPages[2], 2)>>}

\* loadProducts: the catalog parsed from the store, each record with an images
\* array of its own
loadProducts(saved) == [i \in DOMAIN saved |-> [images |-> i] @@ saved[i]]

\* the page application right after its constructor ran with `saved` in the
\* store: init has loaded the catalog and built the dropdowns from it
AppRestored(saved) ==
    /\ products = loadProducts(saved)
    /\ storage = saved
    /\ imageHeap = [i \in DOMAIN saved |-> saved[i].images]
    /\ clock = Len(saved) + 1
    /\ dropdowns = updateFilters(loadProducts(saved))
    /\ filters = [search |-> "", brand |-> "", category |-> ""]
    /\ currentProduct = Null
    /\ isEditing = FALSE
    /\ form = EmptyForm
    /\ toasts = <<>>
    /\ scrapes = <<>>
    /\ downloads = <<>>
    /\ log = <<>>

\* a session on a restored catalog in which nothing is extracted: the user
\* edits, saves, deletes and filters
InitSession ==
    /\ pc = "ready"
    /\ url = ""
    /\ doc = <<>>
    /\ out = <<>>
    /\ \E saved \in StoredCatalogs : AppRestored(saved)
    /\ WorkerIdle
    /\ controlled = FALSE

NextSession ==
    \/ \E i \in DOMAIN products : EditProduct(i)
    \/ \E e \in FormEdits : TypeField(e[1], e[2])
    \/ \E stored \in BOOLEAN : SaveProduct(stored)
    \/ CancelEditing
    \/ \E i \in DOMAIN products : \E stored \in BOOLEAN : DeleteProduct(i, stored)
    \/ \E stored \in BOOLEAN : ClearAllProducts(stored)
    \/ \E brand \in dropdowns.brands \cup {""} : HandleBrandFilter(brand)
    \/ \E category \in dropdowns.categories \cup {""} : HandleCategoryFilter(category)
    \/ ClearFilters

SpecSession == InitSession /\ [][NextSession]_vars

\* a session in which products are extracted into a restored catalog, the
\* user submitting a URL only when no extraction is pending
InitCatalog ==
    /\ pc = "ready"
    /\ url = ""
    /\ doc = <<>>
    /\ out = <<>>
    /\ \E saved \in StoredCatalogs : Len(saved) <= 1 /\ AppRestored(saved)
    /\ WorkerIdle
    /\ controlled = FALSE

\* the user submits the URL once every earlier extraction has returned
ExtractNext ==
    /\ \A k \in DOMAIN scrapes : scrapes[k].stage = "closed"
    /\ ExtractProduct(CatalogUrl)

NextCatalog ==
    \/ ExtractNext
    \/ \E k \in DOMAIN scrapes : ApiScrape(k)
    \/ \E k \in DOMAIN scrapes : \E id \in Now : ExtractProductResume(k, id)
    \/ \E j \in DOMAIN downloads : \E outcome \in DownloadOutcomes : DownloadResume(j, outcome)
    \/ \E stored \in BOOLEAN : SaveProduct(stored)
    \/ CancelEditing
    \/ \E i \in DOMAIN products : EditProduct(i)
    \/ \E i \in DOMAIN products : \E stored \in BOOLEAN : DeleteProduct(i, stored)
    \/ \E stored \in BOOLEAN : ClearAllProducts(stored)

SpecCatalog == InitCatalog /\ [][NextCatalog]_vars

-----------------------------------------------------------------------------
(* Claims about the page application *)

\* the positions of log entry e in the log of run j
Logged(j, e) == {n \in DOMAIN log[j] : log[j][n] = e}

\* C17: every image of a record the extractor returns has downloaded = FALSE;
\* an image's flag is TRUE only if the download request for that image of that
\* record was issued and returned successfully, and it is FALSE for every
\* image whose download request failed.
C17_DownloadedOnlyAfterSuccess ==
    /\ \A k \in DOMAIN scrapes :
          (scrapes[k].served # Null /\ scrapes[k].served.status = 200)
             => \A i \in DOMAIN scrapes[k].served.body.images :
                   ~scrapes[k].served.body.images[i].downloaded
    /\ \A p \in DOMAIN imageHeap : \A i \in DOMAIN imageHeap[p] :
          /\ imageHeap[p][i].downloaded
                => \E j \in DOMAIN downloads :
                      /\ downloads[j].product = p
                      /\ \E n \in Logged(j, LogEntry("downloaded", p, i)) :
                            \E r \in Logged(j, LogEntry("request", p, i)) : r < n
          /\ (\E j \in DOMAIN downloads :
                 downloads[j].product = p /\ Logged(j, LogEntry("failed", p, i)) # {})
                => ~imageHeap[p][i].downloaded

\* a record whose first image failed to download and whose second image
\* was downloaded
C17_Witness ==
    \E j \in DOMAIN downloads :
       LET p == downloads[j].product
       IN  /\ Len(imageHeap[p]) = 2
           /\ Logged(j, LogEntry("failed", p, 1)) # {}
           /\ Logged(j, LogEntry("downloaded", p, 2)) # {}
           /\ ~imageHeap[p][1].downloaded
           /\ imageHeap[p][2].downloaded

\* the runs of downloadProductImages that wait for a response
InFlight == {j \in DOMAIN downloads : downloads[j].inFlight}

\* the log of run j is request 1, outcome 1, request 2, outcome 2, ... for the
\* images of its record in index order, whatever the outcomes are: the run
\* waits for exactly one response while it lasts and has gone through every
\* image once it is over
RunSequential(j) ==
    LET p == downloads[j].product
    IN  /\ \A n \in DOMAIN log[j] :
              IF n % 2 = 1
              THEN log[j][n] = LogEntry("request", p, (n + 1) \div 2)
              ELSE log[j][n] \in {LogEntry("downloaded", p, n \div 2),
                                  LogEntry("failed", p, n \div 2)}
        /\ IF downloads[j].inFlight
           THEN Len(log[j]) = 2 * downloads[j].i - 1 /\ downloads[j].i <= Len(imageHeap[p])
           ELSE Len(log[j]) = 2 * Len(imageHeap[p])

\* C18 as stated: at any time at most one image download request is in flight,
\* the images of a record are requested in index order, request i+1 only after
\* request i completed or failed, and a failed download does not keep the
\* remaining images from being requested.
C18_StrictlySequential ==
    /\ Cardinality(InFlight) <= 1
    /\ \A j \in DOMAIN downloads : RunSequential(j)

\* C18 amended: the images of one record are retrieved strictly sequentially:
\* a record has at most one run, at most one request of it is in flight, its
\* images are requested in index order, request i+1 only after request i
\* completed or failed, and a failure does not keep the remaining images from
\* being requested. Requests of different records may be in flight together.
C18_SequentialPerRecord ==
    /\ \A j, h \in DOMAIN downloads : downloads[j].product = downloads[h].product => j = h
    /\ \A j \in DOMAIN downloads : RunSequential(j)

\* two records are being retrieved at once, each waiting for its second image,
\* the first image of one of them having failed
C18_Witness ==
    /\ Cardinality(InFlight) = 2
    /\ \A j \in InFlight : downloads[j].i = 2 /\ Len(log[j]) = 3
    /\ \E j \in InFlight : log[j][2].event = "failed"

\* s begins with t
HasPrefix(s, t) == Len(s) >= Len(t) /\ SubSeq(s, 1, Len(t)) = t

\* an extraction failed: the page's fetch was rejected, or resolved with a
\* status outside 200..299, or with a body that carries an error
ExtractionFailed(resp) ==
    \/ resp.status = 0
    \/ resp.status < 200 \/ resp.status > 299
    \/ "error" \in DOMAIN resp.body

\* extractProduct resumes with the response of request k in this step
Resumes(k) ==
    /\ k \in DOMAIN scrapes
    /\ Settled(k)
    /\ scrapes'[k].stage = "closed"

\* C19: a step in which extractProduct resumes with a failed extraction leaves
\* currentProduct, the catalog and the editor state (open or not, and the
\* form's fields) as they were, starts no image retrieval and shows exactly
\* one toast, an error toast that says the extraction failed.
C19_FailedExtractionChangesNothing ==
    [][\A k \in DOMAIN scrapes :
          (Resumes(k) /\ ExtractionFailed(scrapes[k].response))
             => /\ UNCHANGED <<currentProduct, products, storage, isEditing, form,
                               imageHeap, downloads>>
                /\ Len(toasts') = Len(toasts) + 1
                /\ SubSeq(toasts', 1, Len(toasts)) = toasts
                /\ toasts'[Len(toasts')].type = "error"
                /\ HasPrefix(toasts'[Len(toasts')].message, "Extraction failed: ")]_vars

\* an extraction has failed while a product extracted before it was open in
\* the editor
C19_Witness ==
    /\ \E k \in DOMAIN scrapes : scrapes[k].stage = "closed"
    /\ toasts # <<>>
    /\ HasPrefix(toasts[Len(toasts)].message, "Extraction failed: ")
    /\ currentProduct # Null
    /\ isEditing
    /\ form.title # ""

\* C20: when the server fails to scrape (it answers 500 with its error
\* message), the step in which extractProduct resumes shows exactly one toast,
\* an error toast whose message contains the server's error message, whether
\* or not the service worker relays the request.
C20_ServerErrorReachesPage ==
    [][\A k \in DOMAIN scrapes :
          (Resumes(k) /\ scrapes[k].served.status = 500)
             => /\ Len(toasts') = Len(toasts) + 1
                /\ toasts'[Len(toasts')].type = "error"
                /\ Includes(toasts'[Len(toasts')].message, scrapes[k].served.body.error)]_vars

-----------------------------------------------------------------------------
(* Claims about the catalog, its editor and its filters *)

\* C21: only records with a non-blank title are in the catalog and in the
\* store, and a saveProduct with an empty or whitespace-only title in the form
\* is rejected: it shows the 'Product title is required' toast and leaves the
\* catalog, the store and currentProduct unchanged, the editor still open.
C21_BlankTitleRejected ==
    [][/\ \A i \in DOMAIN products' : Trim(products'[i].title) # ""
       /\ \A i \in DOMAIN storage' : Trim(storage'[i].title) # ""
       /\ (Trim(form.title) = "" /\ \E stored \in BOOLEAN : SaveProduct(stored))
             => /\ toasts' = Append(toasts, Toast("Product title is required", "error"))
                /\ UNCHANGED <<products, storage, currentProduct, isEditing, form>>
                /\ isEditing]_vars

\* the editor is open on a catalog entry, the title typed into the form is
\* whitespace only, and a save has just been rejected
C21_Witness ==
    /\ currentProduct # Null
    /\ isEditing
    /\ form.title = "   "
    /\ products # <<>>
    /\ toasts # <<>>
    /\ toasts[Len(toasts)] = Toast("Product title is required", "error")

\* C22: the catalog is key-unique.  No two entries of the catalog have the same
\* id, whatever was extracted, saved, edited, deleted or cleared, and a save of
\* a record whose id is already in the catalog replaces that entry: the catalog
\* keeps its length and its ids, and the entry with that id is the saved record.
C22_CatalogKeyUnique ==
    /\ [](\A i, j \in DOMAIN products : products[i].id = products[j].id => i = j)
    /\ [][((\E stored \in BOOLEAN : SaveProduct(stored))
             /\ ~TitleMissing(form)
             /\ \E i \in DOMAIN products : products[i].id = currentProduct.id)
          => /\ Len(products') = Len(products)
             /\ \A i \in DOMAIN products :
                   /\ products'[i].id = products[i].id
                   /\ products[i].id # currentProduct.id => products'[i] = products[i]
                   /\ products[i].id = currentProduct.id
                         => /\ products'[i].title = form.title
                            /\ products'[i].extractedAt = currentProduct.extractedAt]_vars

\* a record extracted at the very time the stored record was made, and so with
\* its id, has been saved: it took the place of the stored record
C22_Witness ==
    /\ Len(products) = 1
    /\ products[1].id = 1
    /\ products[1].extractedAt # 1
    /\ storage # <<>>
    /\ storage[1].extractedAt = products[1].extractedAt

\* C26: a deleted product stays deleted.  In a session in which nothing is
\* extracted and nothing was cleared, an id that is not in the catalog is the
\* id of a product removed by deleteProduct; no step puts such an id back into
\* the catalog, a save of an editor session opened before the deletion
\* included.
C26_DeletedStaysDeleted ==
    [][(\A t \in DOMAIN toasts : toasts[t].message # "All products cleared successfully")
          => \A i \in DOMAIN products' :
                \E j \in DOMAIN products : products[j].id = products'[i].id]_vars

\* C27: the store mirrors the catalog.  As long as localStorage has accepted
\* every write, the list in localStorage is the in-memory catalog written out:
\* the same records with the same field values, the downloaded flag of every
\* image included.
C27_StoreEqualsCatalog ==
    (\A t \in DOMAIN toasts :
        toasts[t].message # "Failed to save products to local storage")
       => storage = Stringify(products, imageHeap)

\* C28: extractions do not overlap.  At most one extraction request is in
\* flight (sent and not yet resumed in extractProduct) at any time, and the
\* record an extraction loads into the editor has the URL of the request
\* submitted last, however clicks, Enter key presses and responses interleave.
C28_OneExtractionInFlight ==
    /\ [](Cardinality({k \in DOMAIN scrapes : scrapes[k].stage # "closed"}) <= 1)
    /\ [][\A k \in DOMAIN scrapes :
             (Resumes(k) /\ currentProduct' # currentProduct)
                => currentProduct'.url = scrapes[Len(scrapes)].url]_vars

\* C29: rendering never fails.  renderProducts throws for no catalog the
\* session reaches, whatever rating a record carries, and a saveProduct that
\* stores its record runs to its end: the dropdowns are rebuilt from the new
\* catalog, the editor is closed, currentProduct is cleared and the last toast
\* is 'Product saved successfully!'.
C29_SaveRunsToCompletion ==
    /\ [](~RenderThrows(products, filters))
    /\ [][((\E stored \in BOOLEAN : SaveProduct(stored)) /\ ~TitleMissing(form))
             => /\ dropdowns' = updateFilters(products')
                /\ ~isEditing'
                /\ currentProduct' = Null
                /\ toasts'[Len(toasts')] = Toast("Product saved successfully!", "success")]_vars

\* C30: the filters follow the dropdowns and the catalog.  The brand and
\* category filters of the application state are the values the two dropdowns
\* show, and an active filter names a brand, or a category, that some record
\* of the catalog has.
C30_FiltersMatchDropdowns ==
    /\ filters.brand = dropdowns.brand
    /\ filters.category = dropdowns.category
    /\ filters.brand # ""
          => \E i \in DOMAIN products : Get(products[i], "brand") = filters.brand
    /\ filters.category # ""
          => \E i \in DOMAIN products :
                \E c \in DOMAIN GetList(products[i], "categories") :
                   products[i].categories[c] = filters.category

-----------------------------------------------------------------------------
(* The service worker: its caches and its fetch listener *)

CACHE_NAME == "amazon-scraper-v1.0.0"

RUNTIME_CACHE == "amazon-scraper-runtime"

API_CACHE == "amazon-scraper-api"

STATIC_ASSETS == {"/", "/index.html", "/styles.css", "/script.js", "/manifest.json"}

EXCLUDE_FROM_CACHE == {"/api/download-image"}

\* how many fetch events the worker receives at most
MaxFetchEvents == 2

\* a request as the fetch listener sees it: its method and the protocol and
\* pathname of new URL(request.url)
Request(method, protocol, pathname) ==
    [method |-> method, protocol |-> protocol, pathname |-> pathname]

\* the requests the pages under the worker's scope may issue
Requests ==
    {Request("GET", "https:", "/"),
     Request("GET", "https:", "/styles.css"),
     Request("GET", "https:", "/manifest.json"),
     Request("GET", "https:", "/health"),
     Request("GET", "https:", "/api/download-image"),
     Request("GET", "https:", "/icon-192.png"),
     Request("POST", "https:", "/api/scrape"),
     Request("POST", "https:", "/api/download-image"),
     Request("GET", "chrome-extension:", "/content.js")}

\* a response with a text body
Text(status, text) == Response(status, [text |-> text])

\* what a fetch() of the worker may settle with: the resource as it is now on
\* the server (it changes over time), a server error, or a rejection
NetworkOutcomes == {Text(200, "v1"), Text(200, "v2"), Text(500, "error"), NetworkError}

\* pathname.endsWith(suffix)
EndsWith(s, t) == Len(s) >= Len(t) /\ SubSeq(s, Len(s) - Len(t) + 1, Len(s)) = t

isStaticAsset(pathname) ==
    \/ EndsWith(pathname, ".css")
    \/ EndsWith(pathname, ".js")
    \/ EndsWith(pathname, ".json")
    \/ pathname = "/manifest.json"

isApiRequest(pathname) == HasPrefix(pathname, "/api/") \/ pathname = "/health"

shouldExcludeFromCache(pathname) ==
    \E excludePath \in EXCLUDE_FROM_CACHE : HasPrefix(pathname, excludePath)

\* an entry of the cache named `cache`: a request and the response stored
\* for it
Entry(cache, request, response) ==
    [cache |-> cache, method |-> request.method, pathname |-> request.pathname,
     response |-> response]

\* cache.put(request, response) on the cache named entry.cache: the entry
\* takes the place of the one the cache had for that request
Put(store, entry) ==
    {e \in store : ~(e.cache = entry.cache /\ e.pathname = entry.pathname)} \cup {entry}

\* the entries caches.match(request) finds, cache by cache
Matches(store, request, cache) ==
    {e \in store : e.cache = cache /\ e.pathname = request.pathname
                      /\ e.method = request.method /\ request.method = "GET"}

\* caches.match(request): the response of the first cache, in creation order,
\* that has the request, Null if none; the install handler creates CACHE_NAME
\* first, and no request is put into both of the other caches
match(store, request) ==
    IF Matches(store, request, CACHE_NAME) # {}
    THEN (CHOOSE e \in Matches(store, request, CACHE_NAME) : TRUE).response
    ELSE IF \E e \in store : e \in Matches(store, request, e.cache)
    THEN (CHOOSE e \in store : e \in Matches(store, request, e.cache)).response
    ELSE Null

\* the caches after the install event: cache.addAll stored every static asset,
\* or it failed (a response was not ok, or the network was down) and stored
\* nothing, which the handler only logs
InstallOutcomes ==
    {{Entry(CACHE_NAME, Request("GET", "https:", pathname), Text(200, "installed")) :
         pathname \in STATIC_ASSETS},
     {}}

\* what a handler does once its fetch has settled: the response it resolves
\* with (NetworkError when it rejects) and the entries it puts into caches
Answer(result, put) == [result |-> result, put |-> put]

\* handleStaticAsset after a cache miss
handleStaticAsset(request, outcome, store) ==
    IF ~Rejected(outcome)
    THEN Answer(outcome, IF IsOk(outcome) THEN {Entry(CACHE_NAME, request, outcome)} ELSE {})
    ELSE IF Includes(request.pathname, "styles.css")
    THEN Answer(Text(200, "/* Offline - styles unavailable */"), {})
    ELSE IF Includes(request.pathname, "script.js")
    THEN Answer(Text(200, "// Offline - script unavailable"), {})
    ELSE Answer(outcome, {})

\* getOfflinePageHtml() as a response
OfflinePage == Text(200, "<title>Offline - Amazon Product Scraper</title>")

handleMainPage_NoFallback(request, outcome, store) ==
    Answer(outcome, IF ~Rejected(outcome) /\ IsOk(outcome)
                    THEN {Entry(CACHE_NAME, request, outcome)} ELSE {})

handleMainPage(request, outcome, store) ==
    IF ~Rejected(outcome) /\ IsOk(outcome)
    THEN Answer(outcome, {Entry(CACHE_NAME, request, outcome)})
    ELSE IF match(store, request) # Null
    THEN Answer(match(store, request), {})
    ELSE Answer(OfflinePage, {})

ApiCacheable_AnyMethod(request, response) == IsOk(response)

\* handleApiRequest puts a response into API_CACHE
ApiCacheable(request, response) == IsOk(response) /\ request.method = "GET"

\* handleApiRequest for any request of the API
handleApiFetch(request, outcome, store) ==
    IF shouldExcludeFromCache(request.pathname)
    THEN Answer(outcome, {})
    ELSE IF ~Rejected(outcome) /\ IsOk(outcome)
    THEN Answer(outcome, IF ApiCacheable(request, outcome)
                         THEN {Entry(API_CACHE, request, outcome)} ELSE {})
    ELSE IF request.method = "GET" /\ match(store, request) # Null
    THEN Answer(match(store, request), {})
    ELSE Answer(handleApiRequest(outcome), {})

handleRuntimeRequest(request, outcome, store) ==
    IF ~Rejected(outcome)
    THEN Answer(outcome, IF IsOk(outcome) THEN {Entry(RUNTIME_CACHE, request, outcome)} ELSE {})
    ELSE IF match(store, request) # Null
    THEN Answer(match(store, request), {})
    ELSE Answer(Text(404, "Resource not found"), {})

\* the fetch listener: the handler whose promise is given to respondWith,
\* "none" when the listener returns without calling respondWith
Handler(request) ==
    IF request.method # "GET"
    THEN IF request.pathname = "/api/scrape" THEN "handleApiRequest" ELSE "none"
    ELSE IF request.protocol = "chrome-extension:" THEN "none"
    ELSE IF isStaticAsset(request.pathname) THEN "handleStaticAsset"
    ELSE IF isApiRequest(request.pathname) THEN "handleApiRequest"
    ELSE IF request.pathname = "/" THEN "handleMainPage"
    ELSE "handleRuntimeRequest"

\* the handler's answer to the settled fetch
Handle(handler, request, outcome, store) ==
    CASE handler = "handleStaticAsset" -> handleStaticAsset(request, outcome, store)
      [] handler = "handleMainPage" -> handleMainPage(request, outcome, store)
      [] handler = "handleApiRequest" -> handleApiFetch(request, outcome, store)
      [] handler = "handleRuntimeRequest" -> handleRuntimeRequest(request, outcome, store)

\* a fetch event: its request, the handler that answers it, whether that
\* handler has settled, what its own fetch() settled with (Null while it
\* issued none) and the response it resolved with
Event(request, handler, stage, fetched, result) ==
    [request |-> request, handler |-> handler, stage |-> stage, fetched |-> fetched,
     result |-> result]

ServedFromCache_Never(handler, cached) == FALSE

\* the handler answers from the caches, without a fetch: handleStaticAsset
\* when caches.match found the request
ServedFromCache(handler, cached) == handler = "handleStaticAsset" /\ cached # Null

\* the fetch listener runs for `request`.  A request it does not answer goes
\* to the network untouched; handleStaticAsset answers from the caches when
\* they have the request; every other handler starts with a fetch.
FetchEvent(request) ==
    /\ Len(fetchEvents) < MaxFetchEvents
    /\ LET handler == Handler(request)
           cached == match(caches, request)
       IN  fetchEvents' = Append(fetchEvents,
               IF handler = "none"
               THEN Event(request, handler, "done", Null, Null)
               ELSE IF ServedFromCache(handler, cached)
               THEN Event(request, handler, "done", Null, cached)
               ELSE Event(request, handler, "fetching", Null, Null))
    /\ UNCHANGED caches
    /\ UNCHANGED <<serverVars, pageVars>>

\* the fetch() of the handler of event e settles with `outcome` and the
\* handler runs to its end
FetchSettles(e, outcome) ==
    /\ e \in DOMAIN fetchEvents
    /\ fetchEvents[e].stage = "fetching"
    /\ LET ev == fetchEvents[e]
           answer == Handle(ev.handler, ev.request, outcome, caches)
       IN  /\ fetchEvents' = [fetchEvents EXCEPT ![e].stage = "done",
                                                 ![e].fetched = outcome,
                                                 ![e].result = answer.result]
           /\ caches' = IF answer.put = {} THEN caches
                        ELSE Put(caches, CHOOSE entry \in answer.put : TRUE)
    /\ UNCHANGED <<serverVars, pageVars>>

\* the message listener receives CLEAR_CACHE: clearAllCaches deletes every
\* cache
ClearAllCaches ==
    /\ caches # {}
    /\ caches' = {}
    /\ UNCHANGED fetchEvents
    /\ UNCHANGED <<serverVars, pageVars>>

\* the worker installed and activated, controlling a page that was just
\* constructed
InitWorker ==
    /\ pc = "ready"
    /\ url = ""
    /\ doc = <<>>
    /\ out = <<>>
    /\ AppConstructed
    /\ controlled = TRUE
    /\ caches \in InstallOutcomes
    /\ fetchEvents = <<>>

NextWorker ==
    \/ \E request \in Requests : FetchEvent(request)
    \/ \E e \in DOMAIN fetchEvents : \E outcome \in NetworkOutcomes : FetchSettles(e, outcome)
    \/ ClearAllCaches

SpecWorker == InitWorker /\ [][NextWorker]_vars

\* the worker when every fetch() it issues settles in the end
SpecWorkerSettling ==
    SpecWorker /\ \A e \in 1..MaxFetchEvents : WF_vars(\E outcome \in NetworkOutcomes : FetchSettles(e, outcome))

-----------------------------------------------------------------------------
(* Claims about the service worker *)

\* C23: the worker caches only successful GET responses.  Every entry of every
\* cache belongs to a GET request and holds an ok response, and no entry
\* belongs to /api/download-image; so no response to POST /api/scrape and none
\* to /api/download-image is ever in a cache, whatever fetch events came.
C23_OnlyOkGetResponsesCached ==
    \A entry \in caches :
       /\ entry.method = "GET"
       /\ IsOk(entry.response)
       /\ ~shouldExcludeFromCache(entry.pathname)
       /\ entry.cache = API_CACHE => isApiRequest(entry.pathname)

\* the worker has relayed an ok response to POST /api/scrape and an ok
\* response to GET /api/download-image, and its caches hold the installed
\* assets only
C23_Witness ==
    /\ \E e \in DOMAIN fetchEvents :
          /\ fetchEvents[e].request = Request("POST", "https:", "/api/scrape")
          /\ fetchEvents[e].stage = "done"
          /\ IsOk(fetchEvents[e].result)
    /\ \E e \in DOMAIN fetchEvents :
          /\ fetchEvents[e].request = Request("GET", "https:", "/api/download-image")
          /\ fetchEvents[e].stage = "done"
          /\ IsOk(fetchEvents[e].result)
    /\ caches # {}
    /\ \A entry \in caches : entry.response = Text(200, "installed")

\* a GET of the main page
MainPage == Request("GET", "https:", "/")

\* C24: the main page is answered network-first.  A GET of '/' always starts
\* with a fetch.  When that fetch gives an ok response, the handler resolves
\* with it and the response is in CACHE_NAME afterwards; when it gives another
\* response or is rejected, the caches stay as they are and the handler
\* resolves with the cached copy of '/', or with the offline page when the
\* caches have none.  The handler never rejects, and once the fetch settles it
\* has resolved with a response.
C24_MainPageNetworkFirst ==
    /\ [][\A e \in DOMAIN fetchEvents' :
             fetchEvents'[e].request = MainPage
                => IF e \notin DOMAIN fetchEvents
                   THEN fetchEvents'[e].stage = "fetching" /\ caches' = caches
                   ELSE (fetchEvents[e].stage = "fetching" /\ fetchEvents'[e].stage = "done")
                           => LET outcome == fetchEvents'[e].fetched
                                  result == fetchEvents'[e].result
                                  copies == {entry \in caches : entry.pathname = "/"}
                              IN  IF ~Rejected(outcome) /\ IsOk(outcome)
                                  THEN /\ result = outcome
                                       /\ Entry(CACHE_NAME, MainPage, outcome) \in caches'
                                  ELSE /\ caches' = caches
                                       /\ \A entry \in copies : result = entry.response
                                       /\ copies = {} => result = OfflinePage]_vars
    /\ [](\A e \in DOMAIN fetchEvents :
             (fetchEvents[e].request = MainPage /\ fetchEvents[e].stage = "done")
                => fetchEvents[e].result # Null /\ ~Rejected(fetchEvents[e].result))
    /\ \A e \in 1..MaxFetchEvents :
          (e \in DOMAIN fetchEvents /\ fetchEvents[e].request = MainPage)
             ~> (/\ e \in DOMAIN fetchEvents
                 /\ fetchEvents[e].stage = "done"
                 /\ fetchEvents[e].result # Null)

\* the install stored nothing; a first GET of '/' was answered from the network
\* and cached, and a second one, whose fetch was rejected, with that copy
C24_Witness ==
    /\ Len(fetchEvents) = 2
    /\ \A e \in {1, 2} : fetchEvents[e].request = MainPage /\ fetchEvents[e].stage = "done"
    /\ fetchEvents[1].fetched = Text(200, "v1")
    /\ fetchEvents[1].result = Text(200, "v1")
    /\ fetchEvents[2].fetched = NetworkError
    /\ fetchEvents[2].result = Text(200, "v1")
    /\ caches = {Entry(CACHE_NAME, MainPage, Text(200, "v1"))}

\* a GET of a static asset that the worker answers
StaticRequest(request) ==
    /\ request.method = "GET"
    /\ request.protocol = "https:"
    /\ isStaticAsset(request.pathname)

\* the fetch listener receives a GET of a static asset in this step, as event e
StaticArrives(e) ==
    /\ e \in DOMAIN fetchEvents'
    /\ e \notin DOMAIN fetchEvents
    /\ StaticRequest(fetchEvents'[e].request)

\* the fetch of handleStaticAsset for event e settles in this step
StaticSettles(e) ==
    /\ e \in DOMAIN fetchEvents
    /\ StaticRequest(fetchEvents[e].request)
    /\ fetchEvents[e].stage = "fetching"
    /\ fetchEvents'[e].stage = "done"

\* static assets are answered cache-first: an asset that is in the caches is
\* answered with the cached response, at once and without a fetch; an asset
\* that is not starts a fetch, and what the fetch gives is cached only when ok
StaticCacheFirst ==
    \A e \in DOMAIN fetchEvents' :
       /\ StaticArrives(e)
             => LET ev == fetchEvents'[e]
                    copies == {entry \in caches : entry.pathname = ev.request.pathname}
                IN  /\ caches' = caches
                    /\ ev.fetched = Null
                    /\ copies = {} => ev.stage = "fetching"
                    /\ \A entry \in copies : ev.stage = "done" /\ ev.result = entry.response
       /\ StaticSettles(e)
             => LET ev == fetchEvents'[e]
                IN  IF ~Rejected(ev.fetched) /\ IsOk(ev.fetched)
                    THEN /\ ev.result = ev.fetched
                         /\ Entry(CACHE_NAME, ev.request, ev.fetched) \in caches'
                    ELSE caches' = caches

\* C25 (as amended): static assets are answered cache-first, and the cache
\* entry of a static asset is replaced by another response only when a fetch
\* settles that handleStaticAsset issued on a cache miss, before the entry was
\* written; a request that arrives while the entry exists never refreshes it.
C25_StaticCacheFirst ==
    [][/\ StaticCacheFirst
       /\ \A entry \in caches :
             (isStaticAsset(entry.pathname) /\ entry \notin caches'
                /\ \E other \in caches' : other.pathname = entry.pathname)
                => \E e \in DOMAIN fetchEvents :
                      /\ StaticSettles(e)
                      /\ fetchEvents[e].request.pathname = entry.pathname
                      /\ IsOk(fetchEvents'[e].fetched)]_vars

\* the install stored nothing; a first GET of /styles.css missed the caches,
\* was fetched and cached, and a second one was answered with that copy and
\* without a fetch
C25_Witness ==
    /\ Len(fetchEvents) = 2
    /\ \A e \in {1, 2} :
          /\ fetchEvents[e].request = Request("GET", "https:", "/styles.css")
          /\ fetchEvents[e].stage = "done"
          /\ fetchEvents[e].result = Text(200, "v1")
    /\ fetchEvents[1].fetched = Text(200, "v1")
    /\ fetchEvents[2].fetched = Null
    /\ caches = {Entry(CACHE_NAME, fetchEvents[1].request, Text(200, "v1"))}

\* C25 (as stated): static assets are answered cache-first, and a cached asset
\* is never refreshed while its cache entry exists: no step replaces the
\* entry of a static asset by another response.
C25_CachedAssetNeverRefreshed ==
    [][/\ StaticCacheFirst
       /\ \A entry \in caches :
             isStaticAsset(entry.pathname)
                => \/ entry \in caches'
                   \/ \A other \in caches' : other.pathname # entry.pathname]_vars

=============================================================================
